---- MODULE Spec2Model ----
(***************************************************************************)
(* Red-black tree of han-so1omon/graphtools, realised on a tagged directed *)
(* graph (structures/red-black-tree.go over structures/graph.go).          *)
(*                                                                         *)
(* A node object is named by its identity: the tree never changes the      *)
(* identity of a node (every SetNode call passes n.ID).  Coordinates are   *)
(* display data only and are left out; every other field of Node, Edge,    *)
(* Graph, ColorData and RBTree is kept.  A missing relation surfaces as    *)
(* the error kind "NoEdge", which the tree's errors.As checks against      *)
(* *NoEdgeError recognise.  A dereference of a nil *Node is the error kind *)
(* "panic", which no caller can ignore.                                    *)
(*                                                                         *)
(* The calls a client makes on a Graph of its own (SpecGraph) are modelled *)
(* apart, with Node objects distinct from identities: there SetNode may    *)
(* give an object any identity, and an Edge keeps the identities its ends  *)
(* had when AddNodes wrote them.  Those operators carry the prefix Graph_.  *)
(***************************************************************************)
EXTENDS Integers, Sequences, FiniteSets, TLC

\* ---- bounds ------------------------------------------------------------
\* size of the range the data identities are drawn from (Intn(1000))
MaxID == 5
\* number of sentinel identities the distributor may issue (-1 .. -MaxNil)
MaxNil == 13
\* before its first Delete a tree may grow further, to identities below
\* MaxDeepID and MaxDeepNil sentinels, deep enough for every repair case of
\* Delete; such a tree then takes at most MaxDeepDeletes calls of Delete
MaxDeepID == 6
MaxDeepNil == 21
MaxDeepDeletes == 1
\* the single caller of the sequential specification makes calls while
\* fewer than MaxErrors of its calls have failed (the server ends at the
\* first error a call returns)
MaxErrors == 1
\* number of caller threads of the concurrent specification
NumThreads == 2
\* the range of data identities and the number of sentinel identities of
\* the concurrent specification
MaxIDConc == 2
MaxNilConc == 5
\* receives the consumer may make on a closed notification channel
MaxSpurious == 1
\* a client of a Graph of its own: Node objects it may make, range of the
\* identities, payloads and weights it passes, calls it makes
MaxObj == 2
MaxGraphID == 2
MaxData == 2
MaxWeight == 2
MaxCalls == 3
\* calls the client makes when every call so far passed the plain arguments
\* (payload 1, weight 0, tags parent and lchild)
MaxPlainCalls == 5
\* calls of the tree's primitives (putNode, rotateLeft, rotateRight): the
\* trees they are called on hold identities below MaxOpsID, putNode draws
\* below MaxOpsID + 1, and at most MaxOps rotations follow one another
MaxOpsID == 4
MaxOps == 2
\* sendGraph goroutines alive at a time beside the calls that take the tree
\* lock and the graph lock
MaxReaders == 2
\* handlers that read t.Root before their call takes the lock: range of the
\* data identities and number of sentinel identities
MaxRaceID == 4
MaxRaceNil == 11

\* ---- program constants -------------------------------------------------
DataNodeTag == "data"
NilNodeTag == "nil"
TagRoot == "r"
TagParent == "p"
TagLChild == "cl"
TagRChild == "cr"
Black == "#242124"
Red == "#c32148"
\* NewGraph(1.0): the graph's MaxEdgeWeight; every tree edge has weight 1.0
MaxEdgeWeight == 1
TreeEdgeWeight == 1
\* capacity of the notification channel: make(chan struct{})
UpdatedCap == 0

Largest(S) == CHOOSE x \in S : \A y \in S : y <= x
IDLimit == Largest({MaxID, MaxDeepID, MaxIDConc, MaxOpsID + 1})
NilLimit == Largest({MaxNil, MaxDeepNil, MaxNilConc})
DataIDs == 0..(IDLimit - 1)
NilIDs == (0 - NilLimit)..(0 - 1)
AllIDs == NilIDs \cup DataIDs
\* the nil *Node
NoNode == IDLimit

NoExtra == [Color |-> "", Type |-> "", Height |-> 0]

\* ---- maps (map[int]int): an absent key reads as 0 ----------------------
MapGet(m, k) == IF k \in DOMAIN m THEN m[k] ELSE 0
MapPut(m, k, v) == [x \in (DOMAIN m) \cup {k} |-> IF x = k THEN v ELSE m[x]]

\* ---- Graph -------------------------------------------------------------
HasNodeWithID(t, id) == \E i \in 1..Len(t.Nodes) : t.Nodes[i] = id

\* index of the first edge of n1 whose far identity is n2, 0 when none
EdgeIndex(es, n2) ==
  IF \E i \in 1..Len(es) : es[i].far = n2
  THEN CHOOSE i \in 1..Len(es) :
         es[i].far = n2 /\ \A j \in 1..(i - 1) : es[j].far # n2
  ELSE 0

\* index of the first edge whose far tag is tag, 0 when none
TagIndex(es, tag) ==
  IF \E i \in 1..Len(es) : es[i].ftag = tag
  THEN CHOOSE i \in 1..Len(es) :
         es[i].ftag = tag /\ \A j \in 1..(i - 1) : es[j].ftag # tag
  ELSE 0

RemoveAt(s, i) == SubSeq(s, 1, i - 1) \o SubSeq(s, i + 1, Len(s))

EdgesOf(t, n) == IF n \in AllIDs THEN t.Edges[n] ELSE << >>

HasRelative(t, n, tag) == TagIndex(EdgesOf(t, n), tag) # 0

\* GetRelative: the far node of the first edge with that far tag, or
\* NoNode together with a NoEdge error
GetRelative(t, n, tag) ==
  LET i == TagIndex(EdgesOf(t, n), tag)
  IN IF n = NoNode THEN [n |-> NoNode, err |-> "panic"]
     ELSE IF i = 0 THEN [n |-> NoNode, err |-> "NoEdge"]
     ELSE [n |-> t.Edges[n][i].far, err |-> "ok"]

GetEdge(t, n1, n2) == EdgeIndex(EdgesOf(t, n1), n2)

\* GetEdgeTags: the near tag of the edge n1 -> n2 ("" with a NoEdge error)
GetEdgeTags(t, n1, n2) ==
  LET i == GetEdge(t, n1, n2)
  IN IF n1 = NoNode \/ n2 = NoNode THEN [tag |-> "", err |-> "panic"]
     ELSE IF i = 0 THEN [tag |-> "", err |-> "NoEdge"]
     ELSE [tag |-> t.Edges[n1][i].ntag, err |-> "ok"]

\* An operation applied to a state that carries an error leaves the state as
\* it is: this is the `if err != nil { return err }` of the code between two
\* calls.  Where the code drops an error, Ignore clears it.
Ok(t) == t.err = "ok"

Fail(t, e) == [t EXCEPT !.err = e]

\* an error the caller drops: only a panic survives
Ignore(t) == IF t.err = "panic" THEN t ELSE [t EXCEPT !.err = "ok"]

\* an error the caller wraps into one of kind e
Wrap(t, e) == IF t.err \in {"ok", "panic"} THEN t ELSE Fail(t, e)

setNodeHelper(t, n, extra) ==
  IF HasNodeWithID(t, n)
  THEN [t EXCEPT !.Extra[n] = extra]
  ELSE [t EXCEPT !.Extra[n] = extra,
                 !.Nodes = Append(@, n),
                 !.NumNodes = @ + 1]

SetNode(t, n, extra) == IF Ok(t) THEN setNodeHelper(t, n, extra) ELSE t

\* SetNodeByID: the node of the graph with that identity, or a new Node
SetNodeByID(t, id, extra) ==
  IF HasNodeWithID(t, id)
  THEN SetNode(t, id, extra)
  ELSE SetNode([t EXCEPT !.Edges[id] = << >>], id, extra)

setEdgeHelper2(t, n1, n2, w, t1, t2) ==
  IF ~Ok(t) THEN t
  ELSE IF w > MaxEdgeWeight THEN Fail(t, "EdgeWeight")
  ELSE LET i == GetEdge(t, n1, n2)
       IN IF i = 0
          THEN [t EXCEPT !.Edges[n1] =
                           Append(@, [far |-> n2, ntag |-> t1, ftag |-> t2, w |-> w]),
                         !.NumEdges = @ + 1]
          ELSE [t EXCEPT !.Edges[n1][i].w = w]

setEdgeHelper(t, n1, n2, w, t1, t2, bidirectional) ==
  IF bidirectional
  THEN setEdgeHelper2(setEdgeHelper2(t, n1, n2, w, t1, t2), n2, n1, w, t2, t1)
  ELSE setEdgeHelper2(t, n1, n2, w, t1, t2)

SetEdge(t, n1, n2, w, t1, t2, bidirectional) ==
  IF ~Ok(t) THEN t
  ELSE IF n1 = NoNode \/ n2 = NoNode THEN Fail(t, "panic")
  ELSE setEdgeHelper(t, n1, n2, w, t1, t2, bidirectional)

\* removeEdgeHelper2 that leaves the edge in n1.Edges
removeEdgeHelper2Kept(t, n1, n2) == t

removeEdgeHelper2(t, n1, n2) ==
  LET i == GetEdge(t, n1, n2)
  IN IF i = 0 THEN t ELSE [t EXCEPT !.Edges[n1] = RemoveAt(@, i)]

removeEdgeHelper(t, n1, n2, bidirectional) ==
  IF bidirectional
  THEN removeEdgeHelper2(removeEdgeHelper2(t, n1, n2), n2, n1)
  ELSE removeEdgeHelper2(t, n1, n2)

RemoveEdge(t, n1, n2, bidirectional) ==
  IF ~Ok(t) THEN t
  ELSE IF n1 = NoNode \/ n2 = NoNode THEN Fail(t, "panic")
  ELSE removeEdgeHelper(t, n1, n2, bidirectional)

\* the first loop of RemoveNode, from position i of g.Nodes on
RECURSIVE StripEdges(_, _, _)
StripEdges(t, n1, i) ==
  IF i > Len(t.Nodes) THEN t
  ELSE StripEdges(removeEdgeHelper(t, t.Nodes[i], n1, TRUE), n1, i + 1)

\* the second loop of RemoveNode
DropFromNodes(t, n1) ==
  [t EXCEPT !.Nodes = SelectSeq(@, LAMBDA x : x # n1),
            !.NumNodes = @ - Cardinality({i \in 1..Len(t.Nodes) : t.Nodes[i] = n1})]

RemoveNode(t, n1) ==
  IF ~Ok(t) THEN t
  ELSE IF n1 = NoNode THEN Fail(t, "panic")
  ELSE DropFromNodes(StripEdges(t, n1, 1), n1)

\* ---- RBTree: lookups ---------------------------------------------------

\* NodeIsNil / ColorDataFromData read n.Extra: a nil *Node panics
NodeIsNil(t, n) == n # NoNode /\ t.Extra[n].Type = NilNodeTag

NodeColor(t, n) == IF n = NoNode THEN "" ELSE t.Extra[n].Color

GetParent(t, n) == GetRelative(t, n, TagParent)

GetRChild(t, n) == GetRelative(t, n, TagRChild)

GetLChild(t, n) == GetRelative(t, n, TagLChild)

GetGrandParent(t, n) ==
  LET p == GetParent(t, n)
  IN IF p.err # "ok" THEN p ELSE GetParent(t, p.n)

GetSibling(t, n) ==
  IF n = t.Root THEN [n |-> NoNode, err |-> "NilNode"]
  ELSE LET p == GetParent(t, n)
       IN IF p.err # "ok" THEN p
          ELSE LET e == GetEdgeTags(t, n, p.n)
               IN IF e.err # "ok" THEN [n |-> NoNode, err |-> e.err]
                  ELSE IF e.tag = TagRChild THEN GetLChild(t, p.n)
                  ELSE GetRChild(t, p.n)

GetUncle(t, n) ==
  LET p == GetParent(t, n)
  IN IF p.err # "ok" THEN p ELSE GetSibling(t, p.n)


\* ---- RBTree: height bookkeeping and child attachment --------------------
\* the loop of setHeightRecurse that lowers t.Height past empty buckets
RECURSIVE ShrinkHeight(_)
ShrinkHeight(t) ==
  IF MapGet(t.nodeHeights, t.Height) = 0 /\ t.Height # 0
  THEN ShrinkHeight([t EXCEPT !.Height = @ - 1])
  ELSE t

RECURSIVE setHeightRecurse(_, _, _, _, _)

\* setHeightRecurse, "Recurse into left child" / "Recurse into right child":
\* tag names the child, height is the height of n
setHeightChild(t, n, height, tag) ==
  IF ~Ok(t) THEN t
  ELSE LET c == GetRelative(t, n, tag)
       IN IF c.err = "ok"
          THEN setHeightRecurse(t, c.n,
                                [t.Extra[c.n] EXCEPT !.Height = height + 1],
                                t.Extra[c.n].Height, TRUE)
          ELSE IF c.err # "NoEdge" THEN Fail(t, c.err)
          ELSE t

\* setHeightRecurse stopping at n: the nodes below keep their heights
setHeightOnly(t, n, data, prevHeight, fromPriorNode) ==
  IF ~Ok(t) THEN t
  ELSE SetNode(t, n, data)

setHeightRecurse(t, n, data, prevHeight, fromPriorNode) ==
  IF ~Ok(t) THEN t
  ELSE LET s0 == IF fromPriorNode
                 THEN ShrinkHeight([t EXCEPT !.nodeHeights =
                                      MapPut(@, prevHeight, MapGet(@, prevHeight) - 1)])
                 ELSE t
           s2 == [SetNode(s0, n, data) EXCEPT
                    !.nodeHeights = MapPut(@, data.Height, MapGet(@, data.Height) + 1),
                    !.Height = IF data.Height > @ THEN data.Height ELSE @]
       IN setHeightChild(setHeightChild(s2, n, data.Height, TagLChild),
                         n, data.Height, TagRChild)

\* setRChild / setLChild from "Set new coordinates and height for child node"
\* on: the height of nc and of the nodes below it, then the edge
linkChild(t, np, nc, tag, bidirectional, fromPriorNode) ==
  IF ~Ok(t) THEN t
  ELSE IF np = NoNode \/ nc = NoNode THEN Fail(t, "panic")
  ELSE SetEdge(setHeightRecurse(t, nc,
                                [t.Extra[nc] EXCEPT !.Height = t.Extra[np].Height + 1],
                                t.Extra[nc].Height, fromPriorNode),
               np, nc, TreeEdgeWeight, TagParent, tag, bidirectional)

\* the common body of setRChild (tag = rchild) and setLChild (tag = lchild)
setChild(t, np, nc, tag, bidirectional, removeCurrent, fromPriorNode) ==
  IF ~Ok(t) THEN t
  ELSE LET cur == GetRelative(t, np, tag)
       IN IF removeCurrent /\ cur.err \notin {"ok", "NoEdge"} THEN Fail(t, cur.err)
          ELSE linkChild(IF removeCurrent /\ cur.err = "ok"
                         THEN RemoveNode(t, cur.n) ELSE t,
                         np, nc, tag, bidirectional, fromPriorNode)

setRChild(t, np, nrc, bidirectional, removeCurrent, fromPriorNode) ==
  setChild(t, np, nrc, TagRChild, bidirectional, removeCurrent, fromPriorNode)

setLChild(t, np, nlc, bidirectional, removeCurrent, fromPriorNode) ==
  setChild(t, np, nlc, TagLChild, bidirectional, removeCurrent, fromPriorNode)

setColor(t, n, color) ==
  IF ~Ok(t) THEN t
  ELSE IF n = NoNode THEN Fail(t, "panic")
  ELSE SetNode(t, n, [t.Extra[n] EXCEPT !.Color = color])

\* a distributor that hands out its counter without decrementing it
TakeNilIDStuck(t) == t

\* rbIDDistributor.GetID for a sentinel: the counter, then decremented
NilID(t) == t.nilNodeCount

TakeNilID(t) == [t EXCEPT !.nilNodeCount = @ - 1]

\* the sentinel parent taking the root as its left child
putRootParentLeft(t, n) ==
  IF ~Ok(t) THEN t
  ELSE Wrap(setLChild(SetNodeByID(TakeNilID(t), NilID(t),
                                  [Color |-> Black, Type |-> NilNodeTag,
                                   Height |-> 0 - 1]),
                      NilID(t), n, TRUE, TRUE, FALSE),
            "NilNode")

\* putNode, root insert, "Set nil node as parent of root"
putRootParent(t, n) ==
  IF ~Ok(t) THEN t
  ELSE Wrap(setRChild(SetNodeByID(TakeNilID(t), NilID(t),
                                  [Color |-> Black, Type |-> NilNodeTag,
                                   Height |-> 0 - 1]),
                      NilID(t), n, TRUE, TRUE, FALSE),
            "NilNode")

\* putNode, root insert, "Set nil nodes as children of root": one of the two
putRootChild(t, n, tag) ==
  IF ~Ok(t) THEN t
  ELSE Wrap(setChild(SetNodeByID(TakeNilID(t), NilID(t),
                                 [Color |-> Black, Type |-> NilNodeTag,
                                  Height |-> 1]),
                     n, NilID(t), tag, TRUE, TRUE, FALSE),
            "NilNode")

\* putNode without its check of the colour
putNodeAnyColour(t, parent, tag, nodeTypeTag, color, dataID) ==
  IF ~Ok(t) THEN t
  ELSE IF parent = NoNode /\ tag = TagRoot
  THEN IF t.Root # NoNode THEN Fail(t, "RootInsert")
       ELSE LET s1 == SetNodeByID(t, dataID,
                                  [Color |-> color, Type |-> DataNodeTag,
                                   Height |-> 0])
                s2 == [s1 EXCEPT !.Root = dataID, !.Height = 0,
                                 !.nodeHeights = MapPut(@, 0, 1)]
            IN putRootChild(putRootChild(putRootParent(s2, dataID),
                                         dataID, TagRChild),
                            dataID, TagLChild)
  ELSE IF parent = NoNode THEN Fail(t, "NilNode")
  ELSE IF tag # TagRChild /\ tag # TagLChild THEN Fail(t, "Tag")
  ELSE IF nodeTypeTag # DataNodeTag /\ nodeTypeTag # NilNodeTag
  THEN Fail(t, "NodeTypeTag")
  ELSE LET id == IF nodeTypeTag = DataNodeTag THEN dataID ELSE NilID(t)
           s0 == IF nodeTypeTag = DataNodeTag THEN t ELSE TakeNilID(t)
           data == [Color |-> color, Type |-> nodeTypeTag,
                    Height |-> t.Extra[parent].Height + 1]
           s1 == SetNodeByID(s0, id, data)
       IN IF tag = TagRChild
          THEN Ignore(setRChild(s1, parent, id, TRUE, TRUE, FALSE))
          ELSE Ignore(setLChild(s1, parent, id, TRUE, TRUE, FALSE))

\* putNode; dataID is the identity GetID draws when a data node is asked for
putNode(t, parent, tag, nodeTypeTag, color, dataID) ==
  IF ~Ok(t) THEN t
  ELSE IF color # Red /\ color # Black THEN Fail(t, "ColorData")
  ELSE IF parent = NoNode /\ tag = TagRoot
  THEN IF t.Root # NoNode THEN Fail(t, "RootInsert")
       ELSE LET s1 == SetNodeByID(t, dataID,
                                  [Color |-> color, Type |-> DataNodeTag,
                                   Height |-> 0])
                s2 == [s1 EXCEPT !.Root = dataID, !.Height = 0,
                                 !.nodeHeights = MapPut(@, 0, 1)]
            IN putRootChild(putRootChild(putRootParent(s2, dataID),
                                         dataID, TagRChild),
                            dataID, TagLChild)
  ELSE IF parent = NoNode THEN Fail(t, "NilNode")
  ELSE IF tag # TagRChild /\ tag # TagLChild THEN Fail(t, "Tag")
  ELSE IF nodeTypeTag # DataNodeTag /\ nodeTypeTag # NilNodeTag
  THEN Fail(t, "NodeTypeTag")
  ELSE LET id == IF nodeTypeTag = DataNodeTag THEN dataID ELSE NilID(t)
           s0 == IF nodeTypeTag = DataNodeTag THEN t ELSE TakeNilID(t)
           data == [Color |-> color, Type |-> nodeTypeTag,
                    Height |-> t.Extra[parent].Height + 1]
           s1 == SetNodeByID(s0, id, data)
       IN IF tag = TagRChild
          THEN Ignore(setRChild(s1, parent, id, TRUE, TRUE, FALSE))
          ELSE Ignore(setLChild(s1, parent, id, TRUE, TRUE, FALSE))

\* the RBTree before putNode creates the root; rootID is the identity drawn.
\* GraphLock is t.Graph.Lock: held inside SetNode, RemoveNode, SetEdge and
\* RemoveEdge, free whenever one of them has returned
EmptyTree ==
  [Nodes |-> << >>, NumNodes |-> 0, NumEdges |-> 0,
   Edges |-> [i \in AllIDs |-> << >>],
   Extra |-> [i \in AllIDs |-> NoExtra],
   Root |-> NoNode, Height |-> 0, nodeHeights |-> << >>,
   nilNodeCount |-> 0 - 1, removePredecessor |-> FALSE,
   GraphLock |-> FALSE, err |-> "ok"]

NewRBTree(rootID) ==
  Ignore(putNode(EmptyTree, NoNode, TagRoot, NilNodeTag, Black, rootID))

\* ---- RBTree: rotations --------------------------------------------------
\* a rotation that leaves the recorded root where it was
moveRootNever(t, n, nnew) == t

\* `if n.ID == t.Root.ID { t.Root = nnew }`
moveRoot(t, n, nnew) ==
  IF Ok(t) /\ n = t.Root THEN [t EXCEPT !.Root = nnew] ELSE t

\* rotateLeft / rotateRight linking p to nnew in one direction only
rotateUnderParentOneWay(t, p, nnew, n2pTag) ==
  IF n2pTag = TagLChild THEN setLChild(t, p, nnew, FALSE, FALSE, TRUE)
  ELSE IF n2pTag = TagRChild THEN setRChild(t, p, nnew, FALSE, FALSE, TRUE)
  ELSE t

\* rotateLeft / rotateRight: nnew takes the side n had below p
rotateUnderParent(t, p, nnew, n2pTag) ==
  IF n2pTag = TagLChild THEN setLChild(t, p, nnew, TRUE, FALSE, TRUE)
  ELSE IF n2pTag = TagRChild THEN setRChild(t, p, nnew, TRUE, FALSE, TRUE)
  ELSE t

\* rotateLeft without its check of the right child
rotateLeftAnyPivot(t, n) ==
  IF ~Ok(t) THEN t
  ELSE
  LET nnew == GetRChild(t, n)
      p == GetParent(t, n)
  IN IF nnew.err # "ok" THEN Fail(t, nnew.err)
     ELSE IF p.err # "ok" THEN Fail(t, p.err)
     ELSE LET n2pTag == GetEdgeTags(t, n, p.n).tag
              nnewLeft == GetLChild(t, nnew.n)
          IN IF nnewLeft.err # "ok" THEN Fail(t, nnewLeft.err)
             ELSE LET s3 == RemoveEdge(RemoveEdge(RemoveEdge(t, p.n, n, TRUE),
                                                  n, nnew.n, TRUE),
                                       nnew.n, nnewLeft.n, TRUE)
                      s5 == setLChild(setRChild(s3, n, nnewLeft.n, TRUE, FALSE, TRUE),
                                      nnew.n, n, TRUE, FALSE, TRUE)
                  IN moveRoot(rotateUnderParent(s5, p.n, nnew.n, n2pTag), n, nnew.n)

rotateLeft(t, n) ==
  IF ~Ok(t) THEN t
  ELSE
  LET nnew == GetRChild(t, n)
      p == GetParent(t, n)
  IN IF nnew.err # "ok" THEN Fail(t, nnew.err)
     ELSE IF p.err # "ok" THEN Fail(t, p.err)
     ELSE IF NodeIsNil(t, nnew.n) THEN Fail(t, "NilNode")
     ELSE LET n2pTag == GetEdgeTags(t, n, p.n).tag
              nnewLeft == GetLChild(t, nnew.n)
          IN IF nnewLeft.err # "ok" THEN Fail(t, nnewLeft.err)
             ELSE LET s3 == RemoveEdge(RemoveEdge(RemoveEdge(t, p.n, n, TRUE),
                                                  n, nnew.n, TRUE),
                                       nnew.n, nnewLeft.n, TRUE)
                      s5 == setLChild(setRChild(s3, n, nnewLeft.n, TRUE, FALSE, TRUE),
                                      nnew.n, n, TRUE, FALSE, TRUE)
                  IN moveRoot(rotateUnderParent(s5, p.n, nnew.n, n2pTag), n, nnew.n)

rotateRight(t, n) ==
  IF ~Ok(t) THEN t
  ELSE
  LET nnew == GetLChild(t, n)
      p == GetParent(t, n)
  IN IF nnew.err # "ok" THEN Fail(t, nnew.err)
     ELSE IF p.err # "ok" THEN Fail(t, p.err)
     ELSE IF NodeIsNil(t, nnew.n) THEN Fail(t, "NilNode")
     ELSE LET n2pTag == GetEdgeTags(t, n, p.n).tag
              nnewRight == GetRChild(t, nnew.n)
          IN IF nnewRight.err # "ok" THEN Fail(t, nnewRight.err)
             ELSE LET s3 == RemoveEdge(RemoveEdge(RemoveEdge(t, p.n, n, TRUE),
                                                  n, nnew.n, TRUE),
                                       nnew.n, nnewRight.n, TRUE)
                      s5 == setRChild(setLChild(s3, n, nnewRight.n, TRUE, FALSE, TRUE),
                                      nnew.n, n, TRUE, FALSE, TRUE)
                  IN moveRoot(rotateUnderParent(s5, p.n, nnew.n, n2pTag), n, nnew.n)

\* ---- RBTree: insertion --------------------------------------------------
\* insertRecurse without its second putNode: no right sentinel for n
putRChildForgotten(t, n) == t

\* insertRecurse, the second putNode: its error is dropped
putRChildDropped(t, n) ==
  IF ~Ok(t) THEN t
  ELSE Ignore(putNode(t, n, TagRChild, NilNodeTag, Black, NoNode))

\* insertRecurse: the result of the inner call and of setLChild/setRChild is
\* dropped, and every frame colours n red and gives it two fresh sentinel
\* children
RECURSIVE insertRecurse(_, _, _)
insertRecurse(t, root, n) ==
  IF ~Ok(t) THEN t
  ELSE IF root = NoNode THEN Fail(t, "Data")
  ELSE LET tag == IF n < root THEN TagLChild ELSE TagRChild
           child == GetRelative(t, root, tag)
       IN IF child.n = NoNode THEN Fail(t, "panic")
          ELSE LET s1 == IF ~NodeIsNil(t, child.n)
                         THEN Ignore(insertRecurse(t, child.n, n))
                         ELSE Ignore(setChild(t, root, n, tag, TRUE, TRUE, FALSE))
               IN putRChildDropped(
                    putNode(setColor(s1, n, Red), n, TagLChild, NilNodeTag, Black,
                            NoNode),
                    n)

insertCase1(t, n) == setColor(t, n, Black)

insertCase2(t, n) == t

\* insertCase4Step2 that leaves the grandparent black after the rotation
insertCase4Step2NoRecolour(t, n) ==
  IF ~Ok(t) THEN t
  ELSE
  LET p == GetParent(t, n)
      gp == GetGrandParent(t, n)
  IN IF p.err # "ok" THEN Fail(t, p.err)
     ELSE IF gp.err # "ok" THEN Fail(t, gp.err)
     ELSE LET n2p == GetEdgeTags(t, n, p.n)
          IN IF n2p.err # "ok" THEN Fail(t, n2p.err)
             ELSE LET s1 == IF n2p.tag = TagLChild
                            THEN rotateRight(t, gp.n)
                            ELSE rotateLeft(t, gp.n)
                  IN setColor(s1, p.n, Black)

insertCase4Step2(t, n) ==
  IF ~Ok(t) THEN t
  ELSE
  LET p == GetParent(t, n)
      gp == GetGrandParent(t, n)
  IN IF p.err # "ok" THEN Fail(t, p.err)
     ELSE IF gp.err # "ok" THEN Fail(t, gp.err)
     ELSE LET n2p == GetEdgeTags(t, n, p.n)
              p2gp == GetEdgeTags(t, p.n, gp.n)
          IN IF n2p.err # "ok" THEN Fail(t, n2p.err)
             ELSE IF p2gp.err # "ok" THEN Fail(t, p2gp.err)
             ELSE LET s1 == IF n2p.tag = TagLChild
                            THEN rotateRight(t, gp.n)
                            ELSE rotateLeft(t, gp.n)
                  IN setColor(setColor(s1, p.n, Black), gp.n, Red)

\* insertCase4 after its rotation, with n left as it was instead of being
\* replaced by its child
insertCase4RotatedSameNode(t, n, tag) ==
  IF ~Ok(t) THEN t
  ELSE insertCase4Step2(t, n)

\* insertCase4 after its rotation: n becomes its own child on the side tag
insertCase4Rotated(t, n, tag) ==
  IF ~Ok(t) THEN t
  ELSE LET n1 == GetRelative(t, n, tag)
       IN IF n1.err # "ok" THEN Fail(t, n1.err)
          ELSE insertCase4Step2(t, n1.n)

insertCase4(t, n) ==
  IF ~Ok(t) THEN t
  ELSE
  LET p == GetParent(t, n)
      gp == GetGrandParent(t, n)
  IN IF p.err # "ok" THEN Fail(t, p.err)
     ELSE IF gp.err # "ok" THEN Fail(t, gp.err)
     ELSE LET n2p == GetEdgeTags(t, n, p.n)
              p2gp == GetEdgeTags(t, p.n, gp.n)
          IN IF n2p.err # "ok" THEN Fail(t, n2p.err)
             ELSE IF p2gp.err # "ok" THEN Fail(t, p2gp.err)
             ELSE IF n2p.tag = TagRChild /\ p2gp.tag = TagLChild
             THEN insertCase4Rotated(rotateLeft(t, p.n), n, TagLChild)
             ELSE IF n2p.tag = TagLChild /\ p2gp.tag = TagRChild
             THEN insertCase4Rotated(rotateRight(t, p.n), n, TagRChild)
             ELSE insertCase4Step2(t, n)

RECURSIVE insertRepairTree(_, _)

insertCase3UncleKept(t, n) ==
  IF ~Ok(t) THEN t
  ELSE
  LET p == GetParent(t, n)
      gp == GetGrandParent(t, n)
  IN IF p.err # "ok" THEN Fail(t, p.err)
     ELSE IF gp.err # "ok" THEN Fail(t, gp.err)
     ELSE insertRepairTree(setColor(setColor(t, p.n, Black), gp.n, Red), gp.n)

\* insertCase3 without the repair of the grandparent that follows the
\* recolouring
insertCase3NoClimb(t, n) ==
  IF ~Ok(t) THEN t
  ELSE
  LET p == GetParent(t, n)
      u == GetUncle(t, n)
      gp == GetGrandParent(t, n)
  IN IF p.err # "ok" THEN Fail(t, p.err)
     ELSE IF u.err # "ok" THEN Fail(t, u.err)
     ELSE IF gp.err # "ok" THEN Fail(t, gp.err)
     ELSE setColor(setColor(setColor(t, p.n, Black), u.n, Black), gp.n, Red)

insertCase3(t, n) ==
  IF ~Ok(t) THEN t
  ELSE
  LET p == GetParent(t, n)
      u == GetUncle(t, n)
      gp == GetGrandParent(t, n)
  IN IF p.err # "ok" THEN Fail(t, p.err)
     ELSE IF u.err # "ok" THEN Fail(t, u.err)
     ELSE IF gp.err # "ok" THEN Fail(t, gp.err)
     ELSE insertRepairTree(
            setColor(setColor(setColor(t, p.n, Black), u.n, Black), gp.n, Red),
            gp.n)

insertRepairTree(t, n) ==
  IF ~Ok(t) THEN t
  ELSE
  LET p == GetParent(t, n)
  IN IF p.err # "ok" THEN Fail(t, p.err)
     ELSE IF NodeIsNil(t, p.n) THEN insertCase1(t, n)
     ELSE IF t.Extra[p.n].Color = Black THEN insertCase2(t, n)
     ELSE LET u == GetUncle(t, n)
          IN IF u.err = "ok" /\ t.Extra[u.n].Color = Red THEN insertCase3(t, n)
             ELSE IF u.err \notin {"ok", "NilNode"} THEN Fail(t, u.err)
             ELSE insertCase4(t, n)

\* the walk of Insert from n up to the node whose parent is a sentinel
RECURSIVE WalkToTop(_, _)
WalkToTop(t, root) ==
  LET rootParent == GetParent(t, root)
  IN IF rootParent.err # "ok" THEN [n |-> NoNode, err |-> rootParent.err]
     ELSE IF NodeIsNil(t, rootParent.n) THEN [n |-> root, err |-> "ok"]
     ELSE WalkToTop(t, rootParent.n)

\* Insert after the lock is taken, up to and including insertRecurse
InsertDescend(t, root, n) == insertRecurse(t, root, n)

\* Insert, `root = n` to `t.Root = root`
recordTop(t, n) ==
  IF ~Ok(t) THEN t
  ELSE LET top == WalkToTop(t, n)
       IN IF top.err # "ok" THEN Fail(t, top.err)
          ELSE [t EXCEPT !.Root = top.n]

\* Insert from insertRepairTree to the return
InsertRepair(t, n) == recordTop(insertRepairTree(t, n), n)

Insert(t, root, n) == InsertRepair(InsertDescend(t, root, n), n)

\* ---- RBTree: deletion ---------------------------------------------------
\* the loop of getPredecessor: the last data node on the rchild chain
RECURSIVE MaxOfSubtree(_, _)
MaxOfSubtree(t, predecessor) ==
  LET next == GetRChild(t, predecessor)
  IN IF next.err # "ok" THEN next
     ELSE IF NodeIsNil(t, next.n) THEN [n |-> predecessor, err |-> "ok"]
     ELSE MaxOfSubtree(t, next.n)

\* the loop of getSuccessor: the last data node on the lchild chain
RECURSIVE MinOfSubtree(_, _)
MinOfSubtree(t, successor) ==
  LET next == GetLChild(t, successor)
  IN IF next.err # "ok" THEN next
     ELSE IF NodeIsNil(t, next.n) THEN [n |-> successor, err |-> "ok"]
     ELSE MinOfSubtree(t, next.n)

getPredecessor(t, n) ==
  LET predecessor == GetLChild(t, n)
  IN IF predecessor.err # "ok" THEN predecessor
     ELSE IF NodeIsNil(t, predecessor.n) THEN [n |-> NoNode, err |-> "NilNode"]
     ELSE MaxOfSubtree(t, predecessor.n)

getSuccessor(t, n) ==
  LET successor == GetRChild(t, n)
  IN IF successor.err # "ok" THEN successor
     ELSE IF NodeIsNil(t, successor.n) THEN [n |-> NoNode, err |-> "NilNode"]
     ELSE MinOfSubtree(t, successor.n)

\* switchNodes, the second setLChild/setRChild of "Set up new edges": its
\* error is overwritten or dropped
switchSecondParent(t, p2, n1, tag) ==
  IF ~Ok(t) THEN t
  ELSE Ignore(IF tag = TagLChild
              THEN setLChild(t, p2, n1, TRUE, FALSE, TRUE)
              ELSE setRChild(t, p2, n1, TRUE, FALSE, TRUE))

\* switchNodes: `if !noLC1 { err = t.Graph.RemoveEdge(n1, lc1, true) ... }`
removeEdgeUnless(no, t, n1, n2) ==
  IF no THEN t ELSE RemoveEdge(t, n1, n2, TRUE)

\* switchNodes: `if !noLC1 { err = t.setLChild(n2, lc1, true, false, true) ... }`
setChildUnless(no, t, np, nc, tag) ==
  IF no THEN t ELSE setChild(t, np, nc, tag, TRUE, FALSE, TRUE)

\* switchNodes from "Get immediate family for n1" on
switchEdges(t, n1, n2) ==
  IF ~Ok(t) THEN t
  ELSE
  LET p1 == GetParent(t, n1)
      n12p1 == GetEdgeTags(t, n1, p1.n)
      lc1 == GetLChild(t, n1)
      rc1 == GetRChild(t, n1)
      p2 == GetParent(t, n2)
      n22p2 == GetEdgeTags(t, n2, p2.n)
      lc2 == GetLChild(t, n2)
      rc2 == GetRChild(t, n2)
      noLC1 == lc1.err = "NoEdge"
      noRC1 == rc1.err = "NoEdge"
      noLC2 == lc2.err = "NoEdge"
      noRC2 == rc2.err = "NoEdge"
  IN IF p1.err # "ok" THEN Fail(t, p1.err)
     ELSE IF n12p1.err # "ok" THEN Fail(t, n12p1.err)
     ELSE IF p2.err # "ok" THEN Fail(t, p2.err)
     ELSE IF n22p2.err # "ok" THEN Fail(t, n22p2.err)
     ELSE
     LET \* n1 is the parent of n2, or n2 is the parent of n1
         p2b == IF n2 = p1.n THEN n1 ELSE IF n1 = p2.n THEN n2 ELSE p2.n
         lc1b == IF n1 = p2.n /\ n22p2.tag = TagLChild THEN n1 ELSE lc1.n
         rc1b == IF n1 = p2.n /\ n22p2.tag # TagLChild THEN n1 ELSE rc1.n
         lc2b == IF n2 = p1.n /\ n12p1.tag = TagLChild THEN n2 ELSE lc2.n
         rc2b == IF n2 = p1.n /\ n12p1.tag # TagLChild THEN n2 ELSE rc2.n
         r2 == RemoveEdge(RemoveEdge(t, n1, p1.n, TRUE), n2, p2.n, TRUE)
         r4 == removeEdgeUnless(noRC1, removeEdgeUnless(noLC1, r2, n1, lc1.n),
                                n1, rc1.n)
         r6 == removeEdgeUnless(noRC2, removeEdgeUnless(noLC2, r4, n2, lc2.n),
                                n2, rc2.n)
         a1 == setChild(r6, p1.n, n2,
                        IF n12p1.tag = TagLChild THEN TagLChild ELSE TagRChild,
                        TRUE, FALSE, TRUE)
         a2 == switchSecondParent(a1, p2b, n1, n22p2.tag)
         a4 == setChildUnless(noRC1, setChildUnless(noLC1, a2, n2, lc1b, TagLChild),
                              n2, rc1b, TagRChild)
     IN setChildUnless(noRC2, setChildUnless(noLC2, a4, n1, lc2b, TagLChild),
                       n1, rc2b, TagRChild)

switchNodes(t, n1, n2) ==
  IF ~Ok(t) THEN t
  ELSE IF n1 = NoNode \/ n2 = NoNode THEN Fail(t, "panic")
  ELSE switchEdges(SetNode(SetNode(t, n1, t.Extra[n2]), n2, t.Extra[n1]), n1, n2)

replaceNode(t, n, child) ==
  IF ~Ok(t) THEN t
  ELSE
  LET p == GetParent(t, n)
      n2p == GetEdgeTags(t, n, p.n)
  IN IF p.err # "ok" THEN Fail(t, p.err)
     ELSE IF n2p.err # "ok" THEN Fail(t, n2p.err)
     ELSE LET s1 == IF n2p.tag = TagLChild
                    THEN setLChild(t, p.n, child, TRUE, FALSE, TRUE)
                    ELSE setRChild(t, p.n, child, TRUE, FALSE, TRUE)
          IN moveRoot(RemoveEdge(RemoveEdge(s1, p.n, n, TRUE), n, child, TRUE),
                      n, child)

RECURSIVE deleteCase1(_, _)

\* deleteCase6 after the two setColor calls: s is the sibling, p the parent
\* and tag the side of n
deleteCase6Rotate(t, s, p, tag) ==
  IF ~Ok(t) THEN t
  ELSE LET c == IF tag = TagLChild THEN GetRChild(t, s) ELSE GetLChild(t, s)
       IN IF c.err # "ok" THEN Fail(t, c.err)
          ELSE IF tag = TagLChild
          THEN Ignore(rotateLeft(setColor(t, c.n, Black), p))
          ELSE Ignore(rotateRight(setColor(t, c.n, Black), p))

deleteCase6(t, n) ==
  IF ~Ok(t) THEN t
  ELSE
  LET s == GetSibling(t, n)
      p == GetParent(t, n)
  IN IF s.err # "ok" THEN Fail(t, s.err)
     ELSE IF p.err # "ok" THEN Fail(t, p.err)
     ELSE LET n2p == GetEdgeTags(t, n, p.n)
              pColor == t.Extra[p.n].Color
          IN IF n2p.err # "ok" THEN Fail(t, n2p.err)
             ELSE deleteCase6Rotate(setColor(setColor(t, s.n, pColor), p.n, Black),
                                    s.n, p.n, n2p.tag)

deleteCase5(t, n) ==
  IF ~Ok(t) THEN t
  ELSE
  LET s == GetSibling(t, n)
      p == GetParent(t, n)
  IN IF s.err # "ok" THEN Fail(t, s.err)
     ELSE IF p.err # "ok" THEN Fail(t, p.err)
     ELSE LET n2p == GetEdgeTags(t, n, p.n)
              sRc == GetRChild(t, s.n)
              sLc == GetLChild(t, s.n)
          IN IF n2p.err # "ok" THEN Fail(t, n2p.err)
             ELSE IF sRc.err # "ok" THEN Fail(t, sRc.err)
             ELSE IF sLc.err # "ok" THEN Fail(t, sLc.err)
             ELSE IF t.Extra[s.n].Color = Black /\ n2p.tag = TagLChild
                     /\ t.Extra[sRc.n].Color = Black /\ t.Extra[sLc.n].Color = Red
             THEN deleteCase6(
                    Ignore(rotateRight(setColor(setColor(t, s.n, Red), sLc.n, Black),
                                       s.n)), n)
             ELSE IF t.Extra[s.n].Color = Black /\ n2p.tag = TagRChild
                     /\ t.Extra[sRc.n].Color = Red /\ t.Extra[sLc.n].Color = Black
             THEN deleteCase6(
                    Ignore(rotateLeft(setColor(setColor(t, s.n, Red), sRc.n, Black),
                                      s.n)), n)
             ELSE deleteCase6(t, n)

\* deleteCase4 that colours the sibling red and leaves the parent red
deleteCase4ParentKept(t, n) ==
  IF ~Ok(t) THEN t
  ELSE
  LET s == GetSibling(t, n)
      p == GetParent(t, n)
  IN IF s.err # "ok" THEN Fail(t, s.err)
     ELSE IF p.err # "ok" THEN Fail(t, p.err)
     ELSE LET sRc == GetRChild(t, s.n)
              sLc == GetLChild(t, s.n)
          IN IF sRc.err # "ok" THEN Fail(t, sRc.err)
             ELSE IF sLc.err # "ok" THEN Fail(t, sLc.err)
             ELSE IF t.Extra[p.n].Color = Red /\ t.Extra[s.n].Color = Black
                     /\ t.Extra[sLc.n].Color = Black /\ t.Extra[sRc.n].Color = Black
             THEN setColor(t, s.n, Red)
             ELSE deleteCase5(t, n)

deleteCase4(t, n) ==
  IF ~Ok(t) THEN t
  ELSE
  LET s == GetSibling(t, n)
      p == GetParent(t, n)
  IN IF s.err # "ok" THEN Fail(t, s.err)
     ELSE IF p.err # "ok" THEN Fail(t, p.err)
     ELSE LET sRc == GetRChild(t, s.n)
              sLc == GetLChild(t, s.n)
          IN IF sRc.err # "ok" THEN Fail(t, sRc.err)
             ELSE IF sLc.err # "ok" THEN Fail(t, sLc.err)
             ELSE IF t.Extra[p.n].Color = Red /\ t.Extra[s.n].Color = Black
                     /\ t.Extra[sLc.n].Color = Black /\ t.Extra[sRc.n].Color = Black
             THEN setColor(setColor(t, s.n, Red), p.n, Black)
             ELSE deleteCase5(t, n)

deleteCase3(t, n) ==
  IF ~Ok(t) THEN t
  ELSE
  LET s == GetSibling(t, n)
      p == GetParent(t, n)
  IN IF s.err # "ok" THEN Fail(t, s.err)
     ELSE IF p.err # "ok" THEN Fail(t, p.err)
     ELSE LET sRc == GetRChild(t, s.n)
              sLc == GetLChild(t, s.n)
          IN IF sRc.err # "ok" THEN Fail(t, sRc.err)
             ELSE IF sLc.err # "ok" THEN Fail(t, sLc.err)
             ELSE IF t.Extra[p.n].Color = Black /\ t.Extra[s.n].Color = Black
                     /\ t.Extra[sLc.n].Color = Black /\ t.Extra[sRc.n].Color = Black
             THEN deleteCase1(setColor(t, s.n, Red), p.n)
             ELSE deleteCase4(t, n)

\* deleteCase2 after the two setColor calls of the red-sibling branch
deleteCase2Rotate(t, n, p) ==
  IF ~Ok(t) THEN t
  ELSE LET n2p == GetEdgeTags(t, n, p)
       IN IF n2p.err # "ok" THEN Fail(t, n2p.err)
          ELSE IF n2p.tag = TagLChild THEN rotateLeft(t, p)
          ELSE rotateRight(t, p)

deleteCase2(t, n) ==
  IF ~Ok(t) THEN t
  ELSE
  LET s == GetSibling(t, n)
      p == GetParent(t, n)
  IN IF s.err # "ok" THEN Fail(t, s.err)
     ELSE IF p.err # "ok" THEN Fail(t, p.err)
     ELSE IF t.Extra[s.n].Color = Red
     THEN deleteCase3(
            deleteCase2Rotate(setColor(setColor(t, p.n, Red), s.n, Black), n, p.n),
            n)
     ELSE deleteCase3(t, n)

deleteCase1(t, n) ==
  IF ~Ok(t) THEN t
  ELSE IF n # t.Root THEN deleteCase2(t, n) ELSE t

\* deleteOneChild after replaceNode: the recolouring or repair, then
\* t.Graph.RemoveNode(n)
deleteOneChildRepair(t, n, child) ==
  IF ~Ok(t) THEN t
  ELSE RemoveNode(IF t.Extra[n].Color = Black
                  THEN IF t.Extra[child].Color = Red
                       THEN setColor(t, child, Black)
                       ELSE deleteCase1(t, child)
                  ELSE t,
                  n)

deleteOneChild(t, n) ==
  IF ~Ok(t) THEN t
  ELSE
  LET rc == GetRChild(t, n)
      lc == GetLChild(t, n)
  IN IF rc.err # "ok" THEN Fail(t, rc.err)
     ELSE IF lc.n = NoNode THEN Fail(t, "panic")
     ELSE IF ~NodeIsNil(t, rc.n) /\ ~NodeIsNil(t, lc.n) THEN Fail(t, "NilNode")
     ELSE LET child == IF ~NodeIsNil(t, rc.n) THEN rc.n ELSE lc.n
              s1 == IF ~NodeIsNil(t, rc.n) THEN RemoveNode(t, lc.n)
                    ELSE RemoveNode(t, rc.n)
          IN deleteOneChildRepair(replaceNode(s1, n, child), n, child)

\* a choice of the replacement that tries the successor first in every call
ReplacementSuccessorFirst(t, n) ==
  LET first == getSuccessor(t, n)
  IN IF first.err = "NilNode" THEN getPredecessor(t, n) ELSE first

\* the replacement node Delete picks: the preferred strategy first, the
\* other one when the preferred one answers with a NilNodeError
Replacement(t, n) ==
  LET first == IF t.removePredecessor THEN getPredecessor(t, n)
               ELSE getSuccessor(t, n)
  IN IF first.err = "NilNode"
     THEN IF t.removePredecessor THEN getSuccessor(t, n) ELSE getPredecessor(t, n)
     ELSE first

\* Delete: `t.Root = replacementNode`
setRoot(t, n) == IF Ok(t) THEN [t EXCEPT !.Root = n] ELSE t

\* Delete: `t.removePredecessor = !t.removePredecessor`
toggleRemovePredecessor(t) ==
  IF Ok(t) THEN [t EXCEPT !.removePredecessor = ~@] ELSE t

\* a Delete that flips the preference before it looks for the replacement
DeleteFlipsFirst(t, n) ==
  LET replacementNode == Replacement(t, n)
  IN IF replacementNode.err # "ok"
     THEN Fail([t EXCEPT !.removePredecessor = ~@], replacementNode.err)
     ELSE deleteOneChild(setRoot(switchNodes([t EXCEPT !.removePredecessor = ~@],
                                             n, replacementNode.n),
                                 replacementNode.n),
                         n)

Delete(t, n) ==
  LET replacementNode == Replacement(t, n)
  IN IF replacementNode.err # "ok" THEN Fail(t, replacementNode.err)
     ELSE toggleRemovePredecessor(
            deleteOneChild(setRoot(switchNodes(t, n, replacementNode.n),
                                   replacementNode.n),
                           n))

\* ---- Graph used on its own ------------------------------------------------
\* Here a Node object is apart from its identity: SetNode gives an object any
\* identity, and an Edge keeps the identities its ends had when it was made.
\* Objects are numbered in the order NewNode() makes them; NoObj is nil.
Objs == 1..MaxObj
NoObj == 0
GraphIDs == 0..(MaxGraphID - 1)
\* the nil Data of a Node that was never set, and the payloads a client sets
NoData == 0
Payloads == 1..MaxData
Weights == 0..MaxWeight
ClientTags == {TagParent, TagLChild}

\* NewGraph(MaxEdgeWeight), and a heap of Nodes as NewNode() leaves them
NewGraph ==
  [Nodes |-> << >>, NumNodes |-> 0, NumEdges |-> 0,
   ID |-> [o \in Objs |-> 0],
   Coords |-> [o \in Objs |-> 0],
   Extra |-> [o \in Objs |-> NoData],
   Edges |-> [o \in Objs |-> << >>],
   made |-> 0, err |-> "ok"]

\* position in g.Nodes of the first node whose identity is id, 0 when none
NodeIndex(g, id) ==
  IF \E i \in 1..Len(g.Nodes) : g.ID[g.Nodes[i]] = id
  THEN CHOOSE i \in 1..Len(g.Nodes) :
         g.ID[g.Nodes[i]] = id /\ \A j \in 1..(i - 1) : g.ID[g.Nodes[j]] # id
  ELSE 0

Graph_HasNodeWithID(g, id) == NodeIndex(g, id) # 0

Graph_GetNodeByID(g, id) ==
  IF NodeIndex(g, id) = 0 THEN [n |-> NoObj, err |-> "NoNode"]
  ELSE [n |-> g.Nodes[NodeIndex(g, id)], err |-> "ok"]

\* a setNodeHelper that appends n without the collision check
Graph_setNodeAppended(g, n, id) ==
  [g EXCEPT !.Nodes = Append(@, n), !.NumNodes = @ + 1]

\* the fields of n are written first; the collision check then reads them
Graph_setNodeWritten(g, n, id) ==
  IF Graph_HasNodeWithID(g, id) THEN g
  ELSE [g EXCEPT !.Nodes = Append(@, n), !.NumNodes = @ + 1]

Graph_setNodeHelper(g, n, id, c, extra) ==
  Graph_setNodeWritten([g EXCEPT !.ID[n] = id, !.Coords[n] = c, !.Extra[n] = extra],
                       n, id)

Graph_SetNode(g, n, id, c, extra) ==
  IF ~Ok(g) THEN g
  ELSE IF n = NoObj THEN Fail(g, "panic")
  ELSE Graph_setNodeHelper(g, n, id, c, extra)

\* SetNodeByID: the first node of the graph with that identity, or NewNode()
Graph_SetNodeByID(g, id, c, extra) ==
  IF Graph_HasNodeWithID(g, id)
  THEN Graph_SetNode(g, Graph_GetNodeByID(g, id).n, id, c, extra)
  ELSE Graph_SetNode([g EXCEPT !.made = @ + 1], g.made + 1, id, c, extra)

\* GetEdge(n1, id): position in n1.Edges of the first edge whose far
\* descriptor carries the identity id, 0 for NoEdgeError
Graph_GetEdge(g, n1, id) ==
  IF \E i \in 1..Len(g.Edges[n1]) : g.Edges[n1][i].far.ID = id
  THEN CHOOSE i \in 1..Len(g.Edges[n1]) :
         /\ g.Edges[n1][i].far.ID = id
         /\ \A j \in 1..(i - 1) : g.Edges[n1][j].far.ID # id
  ELSE 0

\* NewEdge() and AddNodes(n1, n2, t1, t2), with weight w
NewEdge(g, n1, n2, w, t1, t2) ==
  [near |-> [Node |-> n1, ID |-> g.ID[n1], Tag |-> t1],
   far |-> [Node |-> n2, ID |-> g.ID[n2], Tag |-> t2],
   Weight |-> w]

\* a setEdgeHelper2 that checks the weight after it has written the edge
Graph_setEdgeHelper2Late(g, n1, n2, w, t1, t2) ==
  IF ~Ok(g) THEN g
  ELSE IF Graph_GetEdge(g, n1, g.ID[n2]) = 0
  THEN [g EXCEPT !.Edges[n1] = Append(@, NewEdge(g, n1, n2, w, t1, t2)),
                 !.NumEdges = @ + 1,
                 !.err = IF w > MaxEdgeWeight THEN "EdgeWeight" ELSE @]
  ELSE [g EXCEPT !.Edges[n1][Graph_GetEdge(g, n1, g.ID[n2])].Weight = w,
                 !.err = IF w > MaxEdgeWeight THEN "EdgeWeight" ELSE @]

Graph_setEdgeHelper2(g, n1, n2, w, t1, t2) ==
  IF ~Ok(g) THEN g
  ELSE IF w > MaxEdgeWeight THEN Fail(g, "EdgeWeight")
  ELSE IF Graph_GetEdge(g, n1, g.ID[n2]) = 0
  THEN [g EXCEPT !.Edges[n1] = Append(@, NewEdge(g, n1, n2, w, t1, t2)),
                 !.NumEdges = @ + 1]
  ELSE [g EXCEPT !.Edges[n1][Graph_GetEdge(g, n1, g.ID[n2])].Weight = w]

Graph_setEdgeHelper(g, n1, n2, w, t1, t2, bidirectional) ==
  IF bidirectional
  THEN Graph_setEdgeHelper2(Graph_setEdgeHelper2(g, n1, n2, w, t1, t2),
                            n2, n1, w, t2, t1)
  ELSE Graph_setEdgeHelper2(g, n1, n2, w, t1, t2)

Graph_SetEdge(g, n1, n2, w, t1, t2, bidirectional) ==
  IF ~Ok(g) THEN g
  ELSE IF n1 = NoObj \/ n2 = NoObj THEN Fail(g, "panic")
  ELSE Graph_setEdgeHelper(g, n1, n2, w, t1, t2, bidirectional)

\* a removeEdgeHelper2 that returns the NoEdgeError of GetEdge
Graph_removeEdgeHelper2Strict(g, n1, n2) ==
  IF Graph_GetEdge(g, n1, g.ID[n2]) = 0 THEN Fail(g, "NoEdge")
  ELSE [g EXCEPT !.Edges[n1] = RemoveAt(@, Graph_GetEdge(g, n1, g.ID[n2]))]

Graph_removeEdgeHelper2(g, n1, n2) ==
  IF Graph_GetEdge(g, n1, g.ID[n2]) = 0 THEN g
  ELSE [g EXCEPT !.Edges[n1] = RemoveAt(@, Graph_GetEdge(g, n1, g.ID[n2]))]

Graph_removeEdgeHelper(g, n1, n2, bidirectional) ==
  IF bidirectional
  THEN Graph_removeEdgeHelper2(Graph_removeEdgeHelper2(g, n1, n2), n2, n1)
  ELSE Graph_removeEdgeHelper2(g, n1, n2)

Graph_RemoveEdge(g, n1, n2, bidirectional) ==
  IF ~Ok(g) THEN g
  ELSE IF n1 = NoObj \/ n2 = NoObj THEN Fail(g, "panic")
  ELSE Graph_removeEdgeHelper(g, n1, n2, bidirectional)

\* RemoveNode, "Delete all edges to and from this node": the loop over
\* nodes, the value of g.Nodes at its start, from position i on
RECURSIVE Graph_StripEdges(_, _, _, _)
Graph_StripEdges(g, nodes, n1, i) ==
  IF i > Len(nodes) THEN g
  ELSE Graph_StripEdges(Graph_removeEdgeHelper(g, nodes[i], n1, TRUE),
                        nodes, n1, i + 1)

\* append(g.Nodes[:i], g.Nodes[i+1:]...) on the array arr that backs
\* g.Nodes, of which the first len elements are g.Nodes: the elements after
\* position i move down by one, in place, and the last one stays where it was
CutAt(arr, len, i) ==
  [k \in 1..Len(arr) |-> IF k >= i /\ k < len THEN arr[k + 1] ELSE arr[k]]

\* RemoveNode, the loop `for i, n := range g.Nodes` from position i on: it
\* ranges over the array and the length g.Nodes had at its start, while its
\* body shortens g.Nodes. lp.len is len(g.Nodes), lp.num is g.NumNodes; the
\* slice expression g.Nodes[i+1:] panics once i+1 exceeds len(g.Nodes)
RECURSIVE Graph_DropLoop(_, _, _, _)
Graph_DropLoop(g, lp, id, i) ==
  IF i > Len(lp.arr) \/ lp.panic THEN lp
  ELSE IF g.ID[lp.arr[i]] # id THEN Graph_DropLoop(g, lp, id, i + 1)
  ELSE IF i = lp.len
  THEN Graph_DropLoop(g, [lp EXCEPT !.len = i - 1, !.num = @ - 1], id, i + 1)
  ELSE IF i > lp.len THEN [lp EXCEPT !.panic = TRUE]
  ELSE Graph_DropLoop(g, [lp EXCEPT !.arr = CutAt(@, lp.len, i),
                                    !.len = @ - 1, !.num = @ - 1],
                      id, i + 1)

\* g after the loop has ended in lp
Graph_Dropped(g, lp) ==
  [g EXCEPT !.Nodes = SubSeq(lp.arr, 1, lp.len),
            !.NumNodes = lp.num,
            !.err = IF lp.panic THEN "panic" ELSE @]

\* n1.Extra.DeleteData(): a method call on a nil Data panics
DeleteData(g, n1) ==
  IF ~Ok(g) THEN g
  ELSE IF g.Extra[n1] = NoData THEN Fail(g, "panic")
  ELSE g

Graph_RemoveNode(g, n1) ==
  IF ~Ok(g) THEN g
  ELSE IF n1 = NoObj THEN Fail(g, "panic")
  ELSE DeleteData(
         Graph_Dropped(Graph_StripEdges(g, g.Nodes, n1, 1),
                       Graph_DropLoop(g, [arr |-> g.Nodes, len |-> Len(g.Nodes),
                                          num |-> g.NumNodes, panic |-> FALSE],
                                      g.ID[n1], 1)),
         n1)

Graph_RemoveNodeByID(g, id) ==
  IF ~Ok(g) THEN g
  ELSE IF ~Graph_HasNodeWithID(g, id) THEN Fail(g, "NoNode")
  ELSE Graph_RemoveNode(g, Graph_GetNodeByID(g, id).n)

\* no call made yet on the graph. found: the call met the node (SetNode,
\* RemoveNode: n1 in g.Nodes; by identity: a node with id) or the edge
\* n1 -> n2 it names; foundBack: it met the edge n2 -> n1
NoCall ==
  [op |-> "", n1 |-> NoObj, n2 |-> NoObj, id |-> 0, c |-> 0, extra |-> NoData,
   w |-> 0, t1 |-> "", t2 |-> "", bidirectional |-> FALSE,
   found |-> FALSE, foundBack |-> FALSE, err |-> "ok", count |-> 0,
   plain |-> TRUE]

\* ---- state ---------------------------------------------------------------
VARIABLES
  tree,      \* the RBTree with its Graph and identifier distributor
  locked,    \* t.lock is held
  pc,        \* position of every caller thread
  arg,       \* per thread: the root it read and the node it works on
  result,    \* per thread: the error kind its last Insert/Delete returned
  updates,   \* notification channel: calls returned, signals received
  consumer,  \* the receiver of Updated(): "busy" or "ready"
  readers,   \* sendGraph goroutines: waiting for the lock, holding it
  hist,      \* what has been called so far (Delete calls, failed calls)
  graph,     \* a Graph used on its own, with the Node objects of its client
  call       \* the last call made on graph, its arguments and its outcome

vars == <<tree, locked, pc, arg, result, updates, consumer, readers, hist,
          graph, call>>

Threads == 1..NumThreads

\* positions at which a thread is between Lock() and Unlock()
Critical == {"NewNode:body", "NewNode:unlock", "Insert:descend", "Insert:repair",
             "Insert:unlock", "Delete:body", "Delete:unlock"}

InInsertFlow == {"NewNode:body", "NewNode:unlock", "Insert:call", "Insert:lock",
                 "Insert:descend", "Insert:repair"}

\* number of insertRecurse frames of Insert(root, n); each frame issues two
\* sentinel identities
RECURSIVE Frames(_, _, _)
Frames(t, root, n) ==
  LET child == GetRelative(t, root, IF n < root THEN TagLChild ELSE TagRChild).n
  IN IF child = NoNode \/ NodeIsNil(t, child) THEN 1
     ELSE 1 + Frames(t, child, n)

NilIssued(t) == 0 - t.nilNodeCount - 1


Pending == Cardinality({th \in Threads : pc[th] \in InInsertFlow})

\* ---- history of the calls made so far (not program state) --------------
\* deleted: Delete was called; failed: a call returned an error; errors: the
\* number of calls that did (the sequential caller's, up to MaxErrors); deep: calls
\* of Delete made on a tree beyond the small bounds; trip: while the calls so
\* far are inserts followed by one Delete of each inserted node, the nodes
\* inserted and the nodes Delete was called on
TripOff == [on |-> FALSE, inserted |-> {}, called |-> {}]

\* the tree lies within the bounds in which calls mix freely
Small(t) == NilIssued(t) <= MaxNil /\ \A i \in 1..Len(t.Nodes) : t.Nodes[i] < MaxID

AfterInsert(h, n, err) ==
  [h EXCEPT !.failed = @ \/ err # "ok",
            !.errors = IF err # "ok" /\ @ < MaxErrors THEN @ + 1 ELSE @,
            !.trip = IF @.on /\ @.called = {} /\ err = "ok"
                     THEN [@ EXCEPT !.inserted = @ \cup {n}]
                     ELSE TripOff]

AfterDelete(h, t, n, err) ==
  [deleted |-> TRUE,
   failed |-> h.failed \/ err # "ok",
   errors |-> IF err # "ok" /\ h.errors < MaxErrors THEN h.errors + 1 ELSE h.errors,
   deep |-> IF Small(t) THEN h.deep ELSE h.deep + 1,
   trip |-> IF h.trip.on /\ n \in h.trip.inserted \ h.trip.called
            THEN [h.trip EXCEPT !.called = @ \cup {n}]
            ELSE TripOff]

\* NewRBTree with a root identity drawn from 0 .. ids-1
InitWith(ids) ==
  /\ \E rootID \in 0..(ids - 1) : tree = NewRBTree(rootID)
  /\ locked = FALSE
  /\ pc = [th \in Threads |-> "idle"]
  /\ arg = [th \in Threads |-> [root |-> NoNode, n |-> NoNode]]
  /\ result = [th \in Threads |-> "ok"]
  /\ updates = [returned |-> 0, received |-> 0, buffered |-> 0,
                closed |-> FALSE, cancelled |-> FALSE, spurious |-> 0]
  /\ consumer = "busy"
  /\ readers = [waiting |-> 0, holding |-> 0]
  /\ hist = [deleted |-> FALSE, failed |-> FALSE, errors |-> 0, deep |-> 0,
             trip |-> [on |-> TRUE, inserted |-> {}, called |-> {}]]
  /\ graph = NewGraph
  /\ call = NoCall

Init == InitWith(MaxID)

\* no goroutine has ended in a fatal error (which ends the whole program)
Alive == \A th \in Threads : pc[th] # "fatal"

\* thread th is at position loc of a running program
At(th, loc) == Alive /\ pc[th] = loc

\* a Lock() that does not wait for the mutex to be free
AcquireUnchecked == locked' = TRUE

\* t.lock.Lock(): proceeds only when the mutex is free
Acquire == locked = FALSE /\ locked' = TRUE

\* an Unlock() that leaves the mutex as it is
ReleaseKept == locked' = locked

Release == locked' = FALSE

\* every identity of the range GetID draws from is held by a graph node
Full(t) == \A id \in 0..(MaxIDConc - 1) : HasNodeWithID(t, id)

\* NewNode: t.Lock(); a handler starts only while every Insert under way
\* can still get the two sentinels of its first frame, or when its NewNode
\* will find no identity and so never come to Insert
NewNodeLock(th) ==
  /\ At(th, "idle")
  /\ ~updates.cancelled
  /\ NilIssued(tree) + 2 * (Pending + 1) <= MaxNilConc \/ Full(tree)
  /\ Acquire
  /\ pc' = [pc EXCEPT ![th] = "NewNode:body"]
  /\ UNCHANGED <<tree, arg, result, updates, consumer, readers, hist,
                 graph, call>>

\* a GetID that returns the identity it draws without asking the graph
NewNodeBodyUnchecked(th) ==
  /\ At(th, "NewNode:body")
  /\ \E id \in 0..(MaxIDConc - 1) :
       /\ tree' = SetNodeByID(tree, id,
                              [Color |-> Red, Type |-> DataNodeTag, Height |-> 0])
       /\ arg' = [arg EXCEPT ![th].n = id]
  /\ pc' = [pc EXCEPT ![th] = "NewNode:unlock"]
  /\ UNCHANGED <<locked, result, updates, consumer, readers, hist,
                 graph, call>>

\* NewNode: GetID retries until it draws an identity no graph node holds;
\* a draw of a held identity changes nothing, and while every identity is
\* held the thread stays here, with the lock
NewNodeBody(th) ==
  /\ At(th, "NewNode:body")
  /\ \E id \in 0..(MaxIDConc - 1) :
       /\ ~HasNodeWithID(tree, id)
       /\ tree' = SetNodeByID(tree, id,
                              [Color |-> Red, Type |-> DataNodeTag, Height |-> 0])
       /\ arg' = [arg EXCEPT ![th].n = id]
  /\ pc' = [pc EXCEPT ![th] = "NewNode:unlock"]
  /\ UNCHANGED <<locked, result, updates, consumer, readers, hist,
                 graph, call>>

\* NewNode: the deferred t.Unlock()
NewNodeUnlock(th) ==
  /\ At(th, "NewNode:unlock")
  /\ Release
  /\ pc' = [pc EXCEPT ![th] = "Insert:call"]
  /\ UNCHANGED <<tree, arg, result, updates, consumer, readers, hist,
                 graph, call>>

\* the caller evaluates t.Root, without the lock, as Insert's first argument
InsertCall(th) ==
  /\ At(th, "Insert:call")
  /\ arg' = [arg EXCEPT ![th].root = tree.Root]
  /\ pc' = [pc EXCEPT ![th] = "Insert:lock"]
  /\ UNCHANGED <<tree, locked, result, updates, consumer, readers, hist,
                 graph, call>>

\* Insert: t.lock.Lock(), taken while the descent fits in the sentinels left
InsertLock(th) ==
  /\ At(th, "Insert:lock")
  /\ NilIssued(tree) + 2 * Frames(tree, arg[th].root, arg[th].n) <= MaxNilConc
  /\ Acquire
  /\ pc' = [pc EXCEPT ![th] = "Insert:descend"]
  /\ UNCHANGED <<tree, arg, result, updates, consumer, readers, hist,
                 graph, call>>

InsertDescendStep(th) ==
  /\ At(th, "Insert:descend")
  /\ \E s \in {InsertDescend(tree, arg[th].root, arg[th].n)} :
        /\ tree' = [s EXCEPT !.err = "ok"]
        /\ result' = [result EXCEPT ![th] = s.err]
        /\ pc' = [pc EXCEPT ![th] = IF s.err = "ok" THEN "Insert:repair"
                                    ELSE "Insert:unlock"]
        /\ hist' = IF s.err = "ok" THEN hist
                   ELSE AfterInsert(hist, arg[th].n, s.err)
  /\ UNCHANGED <<locked, arg, updates, consumer, readers, graph, call>>

InsertRepairStep(th) ==
  /\ At(th, "Insert:repair")
  /\ \E s \in {InsertRepair(tree, arg[th].n)} :
        /\ tree' = [s EXCEPT !.err = "ok"]
        /\ result' = [result EXCEPT ![th] = s.err]
        /\ hist' = AfterInsert(hist, arg[th].n, s.err)
  /\ pc' = [pc EXCEPT ![th] = "Insert:unlock"]
  /\ UNCHANGED <<locked, arg, updates, consumer, readers, graph, call>>

\* the deferred t.lock.Unlock(); handleInstruction returns on an error and
\* goes on to OnUpdate otherwise
InsertUnlock(th) ==
  /\ At(th, "Insert:unlock")
  /\ Release
  /\ pc' = [pc EXCEPT ![th] = IF result[th] = "ok" THEN "OnUpdate" ELSE "idle"]
  /\ UNCHANGED <<tree, arg, result, updates, consumer, readers, hist,
                 graph, call>>

\* data nodes of the graph
DataNodes(t) == {n \in DataIDs : HasNodeWithID(t, n) /\ t.Extra[n].Type = DataNodeTag}

\* handleInstruction, "Delete": the handler evaluates t.Root, without the
\* lock, as the argument of Delete
DeleteCall(th) ==
  /\ At(th, "idle")
  /\ ~updates.cancelled
  /\ arg' = [arg EXCEPT ![th].n = tree.Root]
  /\ pc' = [pc EXCEPT ![th] = "Delete:lock"]
  /\ UNCHANGED <<tree, locked, result, updates, consumer, readers, hist,
                 graph, call>>

DeleteLock(th) ==
  /\ At(th, "Delete:lock")
  /\ Acquire
  /\ pc' = [pc EXCEPT ![th] = "Delete:body"]
  /\ UNCHANGED <<tree, arg, result, updates, consumer, readers, hist,
                 graph, call>>

DeleteBody(th) ==
  /\ At(th, "Delete:body")
  /\ \E s \in {Delete(tree, arg[th].n)} :
        /\ tree' = [s EXCEPT !.err = "ok"]
        /\ result' = [result EXCEPT ![th] = s.err]
        /\ hist' = AfterDelete(hist, tree, arg[th].n, s.err)
  /\ pc' = [pc EXCEPT ![th] = "Delete:unlock"]
  /\ UNCHANGED <<locked, arg, updates, consumer, readers, graph, call>>

DeleteUnlock(th) ==
  /\ At(th, "Delete:unlock")
  /\ Release
  /\ pc' = [pc EXCEPT ![th] = IF result[th] = "ok" THEN "OnUpdate" ELSE "idle"]
  /\ UNCHANGED <<tree, arg, result, updates, consumer, readers, hist,
                 graph, call>>

\* an OnUpdate that gives up the signal when no receiver is parked
OnUpdateNoWait(th) ==
  /\ At(th, "OnUpdate")
  /\ IF consumer = "ready" /\ ~updates.closed
     THEN /\ updates' = [updates EXCEPT !.returned = @ + 1, !.received = @ + 1]
          /\ consumer' = "busy"
          /\ readers' = [readers EXCEPT !.waiting = @ + 1]
     ELSE /\ updates' = [updates EXCEPT !.returned = @ + 1]
          /\ UNCHANGED <<consumer, readers>>
  /\ pc' = [pc EXCEPT ![th] = "idle"]
  /\ UNCHANGED <<tree, locked, arg, result, hist, graph, call>>

\* an OnUpdate on a channel that Done left open
OnUpdateIgnoresClose(th) ==
  /\ At(th, "OnUpdate")
  /\ consumer = "ready"
  /\ updates' = [updates EXCEPT !.returned = @ + 1, !.received = @ + 1]
  /\ consumer' = "busy"
  /\ readers' = [readers EXCEPT !.waiting = @ + 1]
  /\ pc' = [pc EXCEPT ![th] = "idle"]
  /\ UNCHANGED <<tree, locked, arg, result, hist, graph, call>>

\* OnUpdate: `t.updated <- struct{}{}`.  A send on a closed channel is a
\* fatal error.  Otherwise the send completes by handing the signal to a
\* receiver parked in its select; with no receiver parked it completes only
\* into a free buffer slot, of which the channel has UpdatedCap.  The
\* receiver goes on to `go sendGraph(...)`.
OnUpdate(th) ==
  /\ At(th, "OnUpdate")
  /\ \/ /\ updates.closed
        /\ pc' = [pc EXCEPT ![th] = "fatal"]
        /\ UNCHANGED <<updates, consumer, readers>>
     \/ /\ ~updates.closed
        /\ consumer = "ready"
        /\ updates' = [updates EXCEPT !.returned = @ + 1, !.received = @ + 1]
        /\ consumer' = "busy"
        /\ readers' = [readers EXCEPT !.waiting = @ + 1]
        /\ pc' = [pc EXCEPT ![th] = "idle"]
     \/ /\ ~updates.closed
        /\ consumer # "ready"
        /\ updates.buffered < UpdatedCap
        /\ updates' = [updates EXCEPT !.returned = @ + 1, !.buffered = @ + 1]
        /\ pc' = [pc EXCEPT ![th] = "idle"]
        /\ UNCHANGED <<consumer, readers>>
  /\ UNCHANGED <<tree, locked, arg, result, hist, graph, call>>

\* Done: close(t.updated); closing a closed channel is a fatal error
DoneClose(th) ==
  /\ At(th, "idle")
  /\ ~updates.cancelled
  /\ IF updates.closed
     THEN pc' = [pc EXCEPT ![th] = "fatal"] /\ UNCHANGED updates
     ELSE /\ pc' = [pc EXCEPT ![th] = "Done:cancel"]
          /\ updates' = [updates EXCEPT !.closed = TRUE]
  /\ UNCHANGED <<tree, locked, arg, result, consumer, readers, hist,
                 graph, call>>

\* Done: t.cancel()
DoneCancel(th) ==
  /\ At(th, "Done:cancel")
  /\ updates' = [updates EXCEPT !.cancelled = TRUE]
  /\ pc' = [pc EXCEPT ![th] = "idle"]
  /\ UNCHANGED <<tree, locked, arg, result, consumer, readers, hist,
                 graph, call>>

\* GraphConnect: the loop comes back to its select.  On an open channel it
\* takes a buffered signal when there is one and parks otherwise.
ConsumerSelect ==
  /\ Alive
  /\ consumer = "busy"
  /\ ~updates.closed
  /\ IF updates.buffered > 0
     THEN /\ updates' = [updates EXCEPT !.buffered = @ - 1, !.received = @ + 1]
          /\ readers' = [readers EXCEPT !.waiting = @ + 1]
          /\ UNCHANGED consumer
     ELSE /\ consumer' = "ready"
          /\ UNCHANGED <<updates, readers>>
  /\ UNCHANGED <<tree, locked, pc, arg, result, hist, graph, call>>

\* GraphConnect on a closed channel: the receive of the select yields at
\* once, without a signal, and starts one more sendGraph; once the token is
\* cancelled the select may take `<-ctx.Done()` instead and end the loop
ConsumerClosed ==
  /\ Alive
  /\ consumer \in {"busy", "ready"}
  /\ updates.closed
  /\ \/ /\ updates.spurious < MaxSpurious
        /\ updates' = [updates EXCEPT !.spurious = @ + 1]
        /\ readers' = [readers EXCEPT !.waiting = @ + 1]
        /\ consumer' = "busy"
     \/ /\ updates.cancelled
        /\ consumer' = "done"
        /\ UNCHANGED <<updates, readers>>
  /\ UNCHANGED <<tree, locked, pc, arg, result, hist, graph, call>>

\* sendGraph: (*g).Lock()
SendGraphLock ==
  /\ Alive
  /\ readers.waiting > 0
  /\ Acquire
  /\ readers' = [waiting |-> readers.waiting - 1, holding |-> readers.holding + 1]
  /\ UNCHANGED <<tree, pc, arg, result, updates, consumer, hist, graph, call>>

\* sendGraph: the write of the graph, then the deferred (*g).Unlock()
SendGraphUnlock ==
  /\ Alive
  /\ readers.holding > 0
  /\ Release
  /\ readers' = [readers EXCEPT !.holding = @ - 1]
  /\ UNCHANGED <<tree, pc, arg, result, updates, consumer, hist, graph, call>>

\* ---- concurrent specification: the handlers of graph-store.go, one per
\* thread, the receiver of GraphConnect and its sendGraph goroutines --------
NextConc ==
  \/ \E th \in Threads :
       \/ NewNodeLock(th)
       \/ NewNodeBody(th)
       \/ NewNodeUnlock(th)
       \/ InsertCall(th)
       \/ InsertLock(th)
       \/ InsertDescendStep(th)
       \/ InsertRepairStep(th)
       \/ InsertUnlock(th)
       \/ DeleteCall(th)
       \/ DeleteLock(th)
       \/ DeleteBody(th)
       \/ DeleteUnlock(th)
       \/ OnUpdate(th)
       \/ DoneClose(th)
       \/ DoneCancel(th)
  \/ ConsumerSelect
  \/ ConsumerClosed
  \/ SendGraphLock
  \/ SendGraphUnlock

InitConc == InitWith(MaxIDConc)

SpecConc == InitConc /\ [][NextConc]_vars

\* the draws of GetID are fair: a free identity is drawn in the end
SpecFair ==
  /\ InitConc
  /\ [][NextConc]_vars
  /\ \A th \in Threads : WF_vars(NewNodeBody(th))

\* thread th is in the body of Insert or Delete, where its next step
\* (InsertDescendStep, InsertRepairStep or DeleteBody) is enabled
Working(th) ==
  Alive /\ pc[th] \in {"Insert:descend", "Insert:repair", "Delete:body"}

\* the step thread th takes from the body of Insert or Delete
Works(th) == Working(th) /\ pc'[th] # pc[th]

\* the goroutines are scheduled fairly: a handler inside NewNode, Insert or
\* Delete takes its next step, a sendGraph that holds the lock gives it
\* back, and a handler parked in the Lock() of Insert or Delete gets the
\* mutex when it is free again and again (sync.Mutex hands it to a starving
\* waiter).  The weak fairness of the body of Insert and Delete is written
\* out, with Working(th) for the enabling condition of Works(th).
SpecLive ==
  /\ InitConc
  /\ [][NextConc]_vars
  /\ \A th \in Threads :
       /\ []<>(~Working(th)) \/ []<><<Works(th)>>_vars
       /\ WF_vars(NewNodeBody(th) \/ NewNodeUnlock(th)
                    \/ InsertUnlock(th) \/ DeleteUnlock(th))
       /\ SF_vars(InsertLock(th) \/ DeleteLock(th))
  /\ WF_vars(SendGraphUnlock)

\* ---- sequential specification: one caller, whole calls -------------------
\* the exploration takes identity id next: within the small bounds at any
\* time, within the deep bounds before the first Delete
Fits(t, id) ==
  \/ /\ id < MaxID
     /\ NilIssued(t) + 2 * Frames(t, t.Root, id) <= MaxNil
  \/ /\ ~hist.deleted
     /\ id < MaxDeepID
     /\ NilIssued(t) + 2 * Frames(t, t.Root, id) <= MaxDeepNil

\* NewNode(DataNodeTag), from Lock() to the deferred Unlock()
NewNodeOp(th) ==
  /\ pc[th] = "idle"
  /\ hist.errors < MaxErrors
  /\ locked = FALSE
  /\ \E id \in DataIDs :
       /\ ~HasNodeWithID(tree, id)
       /\ Fits(tree, id)
       /\ tree' = SetNodeByID(tree, id,
                              [Color |-> Red, Type |-> DataNodeTag, Height |-> 0])
       /\ arg' = [arg EXCEPT ![th].n = id]
  /\ pc' = [pc EXCEPT ![th] = "Insert:call"]
  /\ UNCHANGED <<locked, result, updates, consumer, readers, hist,
                 graph, call>>

\* Insert(t.Root, n), from Lock() to the deferred Unlock()
InsertOp(th) ==
  /\ pc[th] = "Insert:call"
  /\ locked = FALSE
  /\ \E s \in {Insert(tree, tree.Root, arg[th].n)} :
       /\ tree' = [s EXCEPT !.err = "ok"]
       /\ result' = [result EXCEPT ![th] = s.err]
       /\ hist' = AfterInsert(hist, arg[th].n, s.err)
  /\ arg' = [arg EXCEPT ![th] = [root |-> NoNode, n |-> NoNode]]
  /\ pc' = [pc EXCEPT ![th] = "idle"]
  /\ UNCHANGED <<locked, updates, consumer, readers, graph, call>>

\* Delete(n) on a data node of the tree, from Lock() to the deferred Unlock()
DeleteOp(th) ==
  /\ pc[th] = "idle"
  /\ hist.errors < MaxErrors
  /\ locked = FALSE
  /\ Small(tree) \/ hist.deep < MaxDeepDeletes
  /\ \E n \in DataNodes(tree) :
       \E s \in {Delete(tree, n)} :
         /\ tree' = [s EXCEPT !.err = "ok"]
         /\ result' = [result EXCEPT ![th] = s.err]
         /\ hist' = AfterDelete(hist, tree, n, s.err)
         /\ arg' = [arg EXCEPT ![th] = [root |-> NoNode, n |-> n]]
  /\ UNCHANGED <<locked, pc, updates, consumer, readers, graph, call>>

Next ==
  \/ NewNodeOp(1)
  \/ InsertOp(1)
  \/ DeleteOp(1)

Spec == Init /\ [][Next]_vars

\* ---- handlers racing on t.Root: the calls of handleInstruction, each call
\* whole (the tree lock keeps calls apart), the read of t.Root a step of its
\* own before the call ----------------------------------------------------
\* t.NewNode(DataNodeTag) of the "Insert" instruction; the identity drawn is
\* none that a handler still holds a node of, so that an identity names
\* one Node object
RaceNewNode(th) ==
  /\ NilIssued(tree) + 2 * (Pending + 1) <= MaxRaceNil
  /\ NewNodeOp(th)
  /\ arg'[th].n < MaxRaceID
  /\ \A other \in Threads : arg'[th].n \notin {arg[other].root, arg[other].n}

\* t.Insert(root, n) with the root the handler read before
RaceInsert(th) ==
  /\ At(th, "Insert:lock")
  /\ NilIssued(tree) + 2 * Frames(tree, arg[th].root, arg[th].n) <= MaxRaceNil
  /\ \E s \in {Insert(tree, arg[th].root, arg[th].n)} :
       /\ tree' = [s EXCEPT !.err = "ok"]
       /\ result' = [result EXCEPT ![th] = s.err]
       /\ hist' = AfterInsert(hist, arg[th].n, s.err)
  /\ arg' = [arg EXCEPT ![th] = [root |-> NoNode, n |-> NoNode]]
  /\ pc' = [pc EXCEPT ![th] = "idle"]
  /\ UNCHANGED <<locked, updates, consumer, readers, graph, call>>

\* the "Delete" instruction evaluates t.Root; no further "Delete"
\* instruction is taken up once a deletion has succeeded
RaceDeleteCall(th) ==
  /\ hist.errors < MaxErrors
  /\ ~hist.deleted
  /\ DeleteCall(th)

\* t.Delete(n) with the root the handler read before
RaceDelete(th) ==
  /\ At(th, "Delete:lock")
  /\ \E s \in {Delete(tree, arg[th].n)} :
       /\ tree' = [s EXCEPT !.err = "ok"]
       /\ result' = [result EXCEPT ![th] = s.err]
       /\ hist' = AfterDelete(hist, tree, arg[th].n, s.err)
  /\ arg' = [arg EXCEPT ![th] = [root |-> NoNode, n |-> NoNode]]
  /\ pc' = [pc EXCEPT ![th] = "idle"]
  /\ UNCHANGED <<locked, updates, consumer, readers, graph, call>>

NextRace ==
  \E th \in Threads :
    \/ RaceNewNode(th)
    \/ InsertCall(th)
    \/ RaceInsert(th)
    \/ RaceDeleteCall(th)
    \/ RaceDelete(th)

SpecRace == InitWith(MaxRaceID) /\ [][NextRace]_vars

\* ---- the two locks: the calls that take t.lock, the locking methods of
\* t.Graph they call while they hold it, and the sendGraph goroutines -------
LockingCalls == {"NewNode", "Insert", "Delete"}

\* the positions of a call: parked in t.Lock(), between t.Lock() and the
\* deferred t.Unlock(), and inside SetNode, RemoveNode, SetEdge or RemoveEdge
CallPos(op) ==
  CASE op = "NewNode" ->
         [lock |-> "NewNode:lock", body |-> "NewNode:body", graph |-> "NewNode:graph"]
    [] op = "Insert" ->
         [lock |-> "Insert:lock", body |-> "Insert:descend", graph |-> "Insert:graph"]
    [] OTHER ->
         [lock |-> "Delete:lock", body |-> "Delete:body", graph |-> "Delete:graph"]

\* a handler calls NewNode, Insert or Delete
CallStart(th) ==
  /\ At(th, "idle")
  /\ \E op \in LockingCalls : pc' = [pc EXCEPT ![th] = CallPos(op).lock]
  /\ UNCHANGED <<tree, locked, arg, result, updates, consumer, readers, hist,
                 graph, call>>

\* t.Lock() of NewNode and Delete, t.lock.Lock() of Insert
TreeLock(th) ==
  /\ \E op \in LockingCalls :
       /\ At(th, CallPos(op).lock)
       /\ pc' = [pc EXCEPT ![th] = CallPos(op).body]
  /\ Acquire
  /\ UNCHANGED <<tree, arg, result, updates, consumer, readers, hist,
                 graph, call>>

\* g.Lock.Lock() of SetNode, RemoveNode, SetEdge and RemoveEdge, called from
\* inside the call
GraphLock(th) ==
  /\ \E op \in LockingCalls :
       /\ At(th, CallPos(op).body)
       /\ pc' = [pc EXCEPT ![th] = CallPos(op).graph]
  /\ ~tree.GraphLock
  /\ tree' = [tree EXCEPT !.GraphLock = TRUE]
  /\ UNCHANGED <<locked, arg, result, updates, consumer, readers, hist,
                 graph, call>>

\* a graph method that returns with g.Lock still held
GraphUnlockKept(th) ==
  /\ \E op \in LockingCalls :
       /\ At(th, CallPos(op).graph)
       /\ pc' = [pc EXCEPT ![th] = CallPos(op).body]
  /\ UNCHANGED <<tree, locked, arg, result, updates, consumer, readers, hist,
                 graph, call>>

\* the helper has run; the deferred g.Lock.Unlock()
GraphUnlock(th) ==
  /\ \E op \in LockingCalls :
       /\ At(th, CallPos(op).graph)
       /\ pc' = [pc EXCEPT ![th] = CallPos(op).body]
  /\ tree' = [tree EXCEPT !.GraphLock = FALSE]
  /\ UNCHANGED <<locked, arg, result, updates, consumer, readers, hist,
                 graph, call>>

\* the call returns: the deferred t.Unlock()
TreeUnlock(th) ==
  /\ \E op \in LockingCalls :
       /\ At(th, CallPos(op).body)
       /\ pc' = [pc EXCEPT ![th] = "idle"]
  /\ Release
  /\ UNCHANGED <<tree, arg, result, updates, consumer, readers, hist,
                 graph, call>>

\* GraphConnect: `go sendGraph(ctx, ws, g)`
SendGraphStart ==
  /\ Alive
  /\ readers.waiting + readers.holding < MaxReaders
  /\ readers' = [readers EXCEPT !.waiting = @ + 1]
  /\ UNCHANGED <<tree, locked, pc, arg, result, updates, consumer, hist,
                 graph, call>>

\* a step of a goroutine that holds a lock or is parked in a Lock()
LockStep ==
  \/ \E th \in Threads :
       TreeLock(th) \/ GraphLock(th) \/ GraphUnlock(th) \/ TreeUnlock(th)
  \/ SendGraphLock
  \/ SendGraphUnlock

NextLocks ==
  \/ \E th \in Threads : CallStart(th)
  \/ SendGraphStart
  \/ LockStep

SpecLocks == InitConc /\ [][NextLocks]_vars

\* ---- calls of a client on a Graph of its own -------------------------------
treeVars == <<tree, locked, pc, arg, result, updates, consumer, readers, hist>>

\* the arguments of c, where the call takes them, are the plain ones
IsPlain(c) ==
  /\ c.c \in {0, 1} /\ c.extra \in {NoData, 1}
  /\ c.w = 0
  /\ c.t1 \in {"", TagParent} /\ c.t2 \in {"", TagLChild}

\* a panic ends the client; it makes MaxCalls calls at most, or
\* MaxPlainCalls calls of plain arguments
CanCall ==
  /\ call.err # "panic"
  /\ call.count < MaxCalls \/ (call.plain /\ call.count < MaxPlainCalls)

MayCall(c) == call.count < MaxCalls \/ IsPlain(c)

\* the Node objects the client holds
Made == 1..graph.made

\* n is one of g.Nodes
InNodes(g, n) == \E i \in 1..Len(g.Nodes) : g.Nodes[i] = n

\* GetEdge(n1, n2.ID) finds an edge
HasEdge(g, n1, n2) == Graph_GetEdge(g, n1, g.ID[n2]) # 0

\* the state after a call that has come to s: the error is the call's result
Returned(s, c) ==
  /\ MayCall(c)
  /\ graph' = [s EXCEPT !.err = "ok"]
  /\ call' = [c EXCEPT !.err = s.err, !.count = call.count + 1,
                       !.plain = call.plain /\ IsPlain(c)]
  /\ UNCHANGED treeVars

\* NewNode() of node.go
NewNodeCall ==
  /\ CanCall
  /\ graph.made < MaxObj
  /\ graph' = [graph EXCEPT !.made = @ + 1]
  /\ call' = [NoCall EXCEPT !.op = "NewNode", !.n1 = graph.made + 1,
                            !.count = call.count, !.plain = call.plain]
  /\ UNCHANGED treeVars

SetNodeCall ==
  /\ CanCall
  /\ \E n \in Made, id \in GraphIDs, c \in Payloads, extra \in Payloads :
       Returned(Graph_SetNode(graph, n, id, c, extra),
                [NoCall EXCEPT !.op = "SetNode", !.n1 = n, !.id = id,
                               !.c = c, !.extra = extra,
                               !.found = InNodes(graph, n)])

SetNodeByIDCall ==
  /\ CanCall
  /\ \E id \in GraphIDs, c \in Payloads, extra \in Payloads :
       /\ Graph_HasNodeWithID(graph, id) \/ graph.made < MaxObj
       /\ Returned(Graph_SetNodeByID(graph, id, c, extra),
                   [NoCall EXCEPT !.op = "SetNodeByID", !.id = id,
                                  !.c = c, !.extra = extra,
                                  !.found = Graph_HasNodeWithID(graph, id)])

RemoveNodeCall ==
  /\ CanCall
  /\ \E n \in Made :
       Returned(Graph_RemoveNode(graph, n),
                [NoCall EXCEPT !.op = "RemoveNode", !.n1 = n,
                               !.found = InNodes(graph, n)])

RemoveNodeByIDCall ==
  /\ CanCall
  /\ \E id \in GraphIDs :
       Returned(Graph_RemoveNodeByID(graph, id),
                [NoCall EXCEPT !.op = "RemoveNodeByID", !.id = id,
                               !.found = Graph_HasNodeWithID(graph, id)])

SetEdgeCall ==
  /\ CanCall
  /\ \E n1 \in Made, n2 \in Made, w \in Weights, t1 \in ClientTags,
        t2 \in ClientTags, bidirectional \in BOOLEAN :
       Returned(Graph_SetEdge(graph, n1, n2, w, t1, t2, bidirectional),
                [NoCall EXCEPT !.op = "SetEdge", !.n1 = n1, !.n2 = n2,
                               !.w = w, !.t1 = t1, !.t2 = t2,
                               !.bidirectional = bidirectional,
                               !.found = HasEdge(graph, n1, n2),
                               !.foundBack = HasEdge(graph, n2, n1)])

RemoveEdgeCall ==
  /\ CanCall
  /\ \E n1 \in Made, n2 \in Made, bidirectional \in BOOLEAN :
       Returned(Graph_RemoveEdge(graph, n1, n2, bidirectional),
                [NoCall EXCEPT !.op = "RemoveEdge", !.n1 = n1, !.n2 = n2,
                               !.bidirectional = bidirectional,
                               !.found = HasEdge(graph, n1, n2),
                               !.foundBack = HasEdge(graph, n2, n1)])

NextGraph ==
  \/ NewNodeCall
  \/ SetNodeCall
  \/ SetNodeByIDCall
  \/ RemoveNodeCall
  \/ RemoveNodeByIDCall
  \/ SetEdgeCall
  \/ RemoveEdgeCall

InitGraph == InitWith(1)

SpecGraph == InitGraph /\ [][NextGraph]_vars

\* ---- calls of the tree's primitives ---------------------------------------
\* putNode, rotateLeft and rotateRight called on a tree grown by inserts, as
\* the package's own callers call them; call records the last call: its
\* arguments, the node it made or the pivot it found, its error, the tree
\* before it, and the call before it
OpTags == {TagRoot, TagParent, TagLChild, TagRChild}
OpKinds == {DataNodeTag, NilNodeTag, "other"}
OpColors == {Red, Black, "green"}

OpReturned(s, c) ==
  /\ tree' = [s EXCEPT !.err = "ok"]
  /\ call' = [c EXCEPT !.err = s.err, !.count = call.count + 1,
                       !.before = tree,
                       !.first = IF call.count = 0 THEN NoCall
                                 ELSE [call EXCEPT !.first = NoCall]]
  /\ UNCHANGED <<locked, pc, arg, result, updates, consumer, readers, hist,
                 graph>>

OpCall(op, parent, tag, kind, color, n, pivot) ==
  [op |-> op, parent |-> parent, tag |-> tag, kind |-> kind, color |-> color,
   n |-> n, pivot |-> pivot, err |-> "ok", count |-> 0, before |-> tree,
   first |-> NoCall]

GrowNewNode ==
  /\ call.count = 0
  /\ NewNodeOp(1)
  /\ arg'[1].n < MaxOpsID

GrowInsert ==
  /\ call.count = 0
  /\ InsertOp(1)

\* putNode(parent, tag, nodeTypeTag, color); n is the identity GetID issues
PutNodeCall ==
  /\ \A th \in Threads : pc[th] = "idle"
  /\ call.count = 0
  /\ \E parent \in DataNodes(tree) \cup {NoNode}, tag \in OpTags,
        kind \in OpKinds, color \in OpColors :
       \E n \in IF kind = DataNodeTag
                THEN {id \in 0..MaxOpsID : ~HasNodeWithID(tree, id)}
                ELSE {NilID(tree)} :
         OpReturned(putNode(tree, parent, tag, kind, color, n),
                    OpCall("putNode", parent, tag, kind, color, n, NoNode))

RotateLeftCall ==
  /\ \A th \in Threads : pc[th] = "idle"
  /\ call.count < MaxOps
  /\ call.op # "putNode"
  /\ \E n \in DataNodes(tree) :
       OpReturned(rotateLeft(tree, n),
                  OpCall("rotateLeft", NoNode, "", "", "", n, GetRChild(tree, n).n))

RotateRightCall ==
  /\ \A th \in Threads : pc[th] = "idle"
  /\ call.count < MaxOps
  /\ call.op # "putNode"
  /\ \E n \in DataNodes(tree) :
       OpReturned(rotateRight(tree, n),
                  OpCall("rotateRight", NoNode, "", "", "", n, GetLChild(tree, n).n))

NextOps ==
  \/ GrowNewNode
  \/ GrowInsert
  \/ PutNodeCall
  \/ RotateLeftCall
  \/ RotateRightCall

InitOps == InitWith(MaxOpsID)

SpecOps == InitOps /\ [][NextOps]_vars

NoPanic == \A th \in Threads : result[th] # "panic"
NoError == \A th \in Threads : result[th] = "ok"

\* ---- tree shape, read off the graph as the tree's own lookups read it -----
InGraph(t) == {t.Nodes[i] : i \in 1..Len(t.Nodes)}

IsData(t, n) == n \in InGraph(t) /\ t.Extra[n].Type = DataNodeTag

IsSentinel(t, n) == n \in InGraph(t) /\ t.Extra[n].Type = NilNodeTag

Parent(t, n) == GetParent(t, n).n
LChild(t, n) == GetLChild(t, n).n
RChild(t, n) == GetRChild(t, n).n

\* the data node whose parent is a sentinel, reached upwards from the
\* recorded root (NoNode when the climb fails)
Top(t) == WalkToTop(t, t.Root).n

\* data nodes of the subtree below n; fuel bounds the descent
RECURSIVE Subtree(_, _, _)
Subtree(t, n, fuel) ==
  IF fuel = 0 \/ ~IsData(t, n) THEN {}
  ELSE {n} \cup Subtree(t, LChild(t, n), fuel - 1)
           \cup Subtree(t, RChild(t, n), fuel - 1)

Fuel(t) == Len(t.Nodes)

TreeNodes(t) == Subtree(t, Top(t), Fuel(t))

\* number of black nodes on every path from n down to a sentinel, n included;
\* -1 when two paths differ or a child is missing
RECURSIVE BlackHeight(_, _, _)
BlackHeight(t, n, fuel) ==
  IF fuel = 0 \/ n \notin InGraph(t) THEN 0 - 1
  ELSE IF IsSentinel(t, n) THEN IF t.Extra[n].Color = Black THEN 1 ELSE 0
  ELSE LET l == BlackHeight(t, LChild(t, n), fuel - 1)
           r == BlackHeight(t, RChild(t, n), fuel - 1)
       IN IF l < 0 \/ r < 0 \/ l # r THEN 0 - 1
          ELSE l + (IF t.Extra[n].Color = Black THEN 1 ELSE 0)

EqualBlackHeight(t) == BlackHeight(t, Top(t), Fuel(t)) >= 0

NoRedRed(t) ==
  \A n \in TreeNodes(t) :
    t.Extra[n].Color = Red =>
      /\ NodeColor(t, LChild(t, n)) # Red
      /\ NodeColor(t, RChild(t, n)) # Red

BSTOrder(t) ==
  \A x \in TreeNodes(t) :
    /\ \A y \in Subtree(t, LChild(t, x), Fuel(t)) : y < x
    /\ \A y \in Subtree(t, RChild(t, x), Fuel(t)) : y > x

\* no call is in progress and no node waits to be inserted
AtRest == \A th \in Threads : pc[th] = "idle"

\* ---- the claims ----------------------------------------------------------
\* edges of n whose far end stands in relation tag to n
RelationCount(t, n, tag) ==
  Cardinality({i \in 1..Len(EdgesOf(t, n)) : EdgesOf(t, n)[i].ftag = tag})

\* n has exactly one left child, one right child and one parent, all nodes of
\* the graph, and its parent is a sentinel exactly when n is the node top
WellLinked(t, n, top) ==
  /\ RelationCount(t, n, TagLChild) = 1
  /\ RelationCount(t, n, TagRChild) = 1
  /\ RelationCount(t, n, TagParent) = 1
  /\ LChild(t, n) \in InGraph(t)
  /\ RChild(t, n) \in InGraph(t)
  /\ Parent(t, n) \in InGraph(t)
  /\ IsSentinel(t, Parent(t, n)) <=> n = top

\* every child relation of the graph is answered by the parent relation
ParentsMatchChildren(t) ==
  \A n \in InGraph(t) :
    /\ HasRelative(t, n, TagLChild) => Parent(t, LChild(t, n)) = n
    /\ HasRelative(t, n, TagRChild) => Parent(t, RChild(t, n)) = n

\* the node the last call, a Delete, was made on (NoNode after an Insert)
LastDeleted == arg[1].n

\* the calls so far are inserts followed by one Delete of every inserted node
RoundTripDone ==
  /\ AtRest
  /\ hist.trip.on
  /\ hist.trip.inserted # {}
  /\ hist.trip.called = hist.trip.inserted

\* the graph of a tree of one data node
OneRootShape(t) ==
  /\ DataNodes(t) = {t.Root}
  /\ Cardinality(InGraph(t)) = 4
  /\ IsSentinel(t, LChild(t, t.Root))
  /\ IsSentinel(t, RChild(t, t.Root))
  /\ IsSentinel(t, Parent(t, t.Root))
  /\ Cardinality({LChild(t, t.Root), RChild(t, t.Root), Parent(t, t.Root)}) = 3

\* C1: after successful Insert calls alone, each from the recorded root, on a
\* freshly constructed tree, every path from the root down to a sentinel
\* holds the same number of black nodes and no red node has a red child
C1_InsertKeepsColours ==
  (AtRest /\ ~hist.deleted /\ ~hist.failed) =>
    /\ tree.Root = Top(tree)
    /\ EqualBlackHeight(tree)
    /\ NoRedRed(tree)

\* a tree of five data nodes grown by inserts, whose top is an inserted node
\* (a rotation moved the root) and which holds a red node
C1_Witness ==
  /\ AtRest /\ ~hist.deleted /\ ~hist.failed
  /\ Cardinality(TreeNodes(tree)) >= 5
  /\ Top(tree) \in hist.trip.inserted
  /\ \E n \in TreeNodes(tree) : tree.Extra[n].Color = Red

\* C2: after successful Insert calls (from the recorded root) and successful
\* Delete calls, every data node of x's left subtree has a smaller identity
\* than x and every data node of its right subtree a larger one
C2_OrderKept == (AtRest /\ ~hist.failed) => BSTOrder(tree)

C4_TwoChildrenOneParent ==
  AtRest => \A n \in TreeNodes(tree) : WellLinked(tree, n, Top(tree))

\* a successful Delete has left a tree of three data nodes or more, one of
\* them with two sentinel children
C4_Witness ==
  /\ AtRest /\ LastDeleted # NoNode /\ result[1] = "ok"
  /\ Cardinality(TreeNodes(tree)) >= 3
  /\ \E n \in TreeNodes(tree) :
       IsSentinel(tree, LChild(tree, n)) /\ IsSentinel(tree, RChild(tree, n))

\* C5: in every state that construction, NewNode, Insert and Delete (with
\* the putNode calls and rotations they make) reach, a node that has a left
\* child is the parent of that child, and likewise for its right child
C5_ParentOfChild == ParentsMatchChildren(tree)

\* a successful Delete has left a tree of four data nodes or more in which a
\* data node has two data children, each naming it as its parent
C5_Witness ==
  /\ AtRest /\ hist.deleted /\ result[1] = "ok" /\ LastDeleted # NoNode
  /\ Cardinality(TreeNodes(tree)) >= 4
  /\ \E n \in TreeNodes(tree) :
       /\ IsData(tree, LChild(tree, n)) /\ Parent(tree, LChild(tree, n)) = n
       /\ IsData(tree, RChild(tree, n)) /\ Parent(tree, RChild(tree, n)) = n

\* C6: Delete(n) on any data node of the tree removes n from the graph,
\* removes nothing but n and sentinels, and leaves every remaining data node
\* with a parent and two children that name it as their parent
C6_DeleteRemoves ==
  (AtRest /\ LastDeleted # NoNode) =>
    /\ LastDeleted \notin InGraph(tree)
    /\ \A n \in DataNodes(tree) : WellLinked(tree, n, Top(tree))
    /\ ParentsMatchChildren(tree)

\* C7: inserting N nodes in a freshly constructed tree and then deleting
\* those N nodes leaves one data node, the recorded root, with two sentinel
\* children and one sentinel parent, and no other node
C7_RoundTrip == RoundTripDone => OneRootShape(tree)

\* C8: after every successful Insert and every successful Delete the recorded
\* root is a data node of the graph whose parent is a sentinel
C8_RootIsTop ==
  (AtRest /\ result[1] = "ok") =>
    /\ IsData(tree, tree.Root)
    /\ IsSentinel(tree, Parent(tree, tree.Root))

\* threads between Lock() and Unlock()
Holders == {th \in Threads : pc[th] \in Critical}

\* C9: under every interleaving of the NewNode, Insert and Delete calls of
\* the handlers, at most one call (or sendGraph) is between acquiring and
\* releasing the tree lock, and the lock is held exactly then
C9_MutualExclusion ==
  /\ Cardinality(Holders) + readers.holding <= 1
  /\ locked <=> Cardinality(Holders) + readers.holding = 1

\* one thread is inside Insert, between its descent and its repair, while
\* another thread waits for the lock
C9_Witness ==
  /\ \E th \in Threads : pc[th] = "Insert:repair"
  /\ \E th \in Threads : pc[th] \in {"Delete:lock", "Insert:lock"}

\* C10: OnUpdate returns only in a step in which a parked consumer receives
\* the signal; nothing is buffered, and the calls returned always equal the
\* signals received
C10_ReturnsOnReceive ==
  [][/\ updates'.returned = updates'.received
     /\ updates'.buffered = 0
     /\ updates'.returned # updates.returned => consumer = "ready"]_vars

\* a signal has been delivered and another OnUpdate is blocked: no consumer
\* is parked
C10_Witness ==
  /\ updates.returned >= 1
  /\ updates.received = updates.returned
  /\ consumer = "busy"
  /\ \E th \in Threads : pc[th] = "OnUpdate"

\* C11: Done closes the notification channel and cancels the token, and an
\* OnUpdate on the closed channel ends in a fatal error without a signal
\* being returned or received
C11_OnUpdateAfterDone ==
  [][\A th \in Threads :
       /\ (pc[th] = "Done:cancel" /\ pc'[th] = "idle") =>
            (updates'.closed /\ updates'.cancelled)
       /\ (updates.closed /\ pc[th] = "OnUpdate" /\ pc'[th] # "OnUpdate") =>
            /\ pc'[th] = "fatal"
            /\ updates'.received = updates.received
            /\ updates'.returned = updates.returned]_vars

\* Done has returned and an OnUpdate made after it has ended fatally
C11_Witness ==
  /\ updates.closed /\ updates.cancelled
  /\ \E th \in Threads : pc[th] = "fatal"

\* C12: when an Insert or Delete call has returned an error the tree lock is
\* free and the tree is well formed: every data node has one parent and two
\* children, all of them in the graph, children name their parents, and the
\* parent of the recorded root is a sentinel
C12_ErrorLeavesWellFormed ==
  (AtRest /\ result[1] # "ok") =>
    /\ locked = FALSE
    /\ \A n \in TreeNodes(tree) : WellLinked(tree, n, Top(tree))
    /\ ParentsMatchChildren(tree)
    /\ IsSentinel(tree, Parent(tree, tree.Root))

\* no call has been made since NewRBTree returned
Constructed ==
  /\ AtRest
  /\ ~hist.deleted
  /\ hist.trip.on
  /\ hist.trip.inserted = {}

\* C13: right after construction the graph holds four nodes: the recorded
\* root, a black data node; a sentinel that is its parent and has it as right
\* child; and two distinct sentinels, its left and right children
C13_ConstructedShape ==
  Constructed =>
    /\ OneRootShape(tree)
    /\ tree.NumNodes = 4
    /\ tree.Extra[tree.Root].Color = Black
    /\ RChild(tree, Parent(tree, tree.Root)) = tree.Root

\* a freshly constructed tree whose root drew a non-zero identity
C13_Witness ==
  /\ Constructed
  /\ tree.Root # 0
  /\ IsData(tree, tree.Root)
  /\ Len(tree.Nodes) = 4

\* C14: a newly constructed tree records height 0 and one occupant at
\* height 0
C14_FreshHeight ==
  Constructed =>
    /\ tree.Height = 0
    /\ MapGet(tree.nodeHeights, 0) = 1

\* nodes of the graph whose recorded height is h
CountAt(t, h) == Cardinality({n \in InGraph(t) : t.Extra[n].Height = h})

\* the heights >= 0 that a node or an occupancy count is recorded at
HeightsOf(t) ==
  {h \in (DOMAIN t.nodeHeights) \cup {t.Extra[n].Height : n \in InGraph(t)} :
     h >= 0}

\* C15: after construction and after every completed Insert or Delete, the
\* occupancy count of every height h >= 0 is the number of graph nodes
\* recorded at h, no count is negative, and the recorded maximum height is
\* the largest h with a non-zero count
C15_OccupancyExact ==
  AtRest =>
    /\ \A h \in HeightsOf(tree) : MapGet(tree.nodeHeights, h) = CountAt(tree, h)
    /\ \A h \in DOMAIN tree.nodeHeights : tree.nodeHeights[h] >= 0
    /\ MapGet(tree.nodeHeights, tree.Height) # 0
    /\ \A h \in HeightsOf(tree) :
         h > tree.Height => MapGet(tree.nodeHeights, h) = 0

\* a call of op on the graph has just returned
Called(op) == call'.op = op /\ call'.count # call.count

\* C16: RemoveEdge(n1, n2, bidirectional) returns no error; when GetEdge
\* finds no edge n1 -> n2 (nor, if bidirectional, n2 -> n1) it leaves the
\* graph as it was; and a second RemoveEdge with the same arguments leaves
\* the graph the first one made
C16_RemoveEdgeAbsent ==
  [][Called("RemoveEdge") =>
       /\ call'.err = "ok"
       /\ (~HasEdge(graph, call'.n1, call'.n2)
           /\ (call'.bidirectional => ~HasEdge(graph, call'.n2, call'.n1)))
          => graph' = graph
       /\ Graph_RemoveEdge(graph', call'.n1, call'.n2, call'.bidirectional)
            = graph']_vars

\* a bidirectional RemoveEdge has returned that met no edge either way, on a
\* graph that holds an edge
C16_Witness ==
  /\ call.op = "RemoveEdge" /\ call.err = "ok"
  /\ call.bidirectional /\ ~call.found /\ ~call.foundBack
  /\ \E o \in Objs : Len(graph.Edges[o]) > 0

\* C17: SetEdge with a weight above MaxEdgeWeight returns EdgeWeightError
\* and leaves the graph as it was: no edge made or changed, NumEdges the same
C17_OverweightRejected ==
  [][(Called("SetEdge") /\ call'.w > MaxEdgeWeight) =>
       /\ call'.err = "EdgeWeight"
       /\ graph' = graph]_vars

\* a bidirectional SetEdge of too large a weight has been refused on two
\* nodes that an edge already joins
C17_Witness ==
  /\ call.op = "SetEdge" /\ call.err = "EdgeWeight"
  /\ call.w > MaxEdgeWeight
  /\ call.bidirectional /\ call.found
  /\ graph.NumEdges >= 1

\* the edge GetEdge(n1, n2.ID) returns has weight w, near tag t1, far tag t2
\* and the ends n1 and n2
EdgeIs(g, n1, n2, w, t1, t2) ==
  /\ HasEdge(g, n1, n2)
  /\ LET e == g.Edges[n1][Graph_GetEdge(g, n1, g.ID[n2])]
     IN /\ e.Weight = w
        /\ e.near.Tag = t1 /\ e.far.Tag = t2
        /\ e.near.Node = n1 /\ e.far.Node = n2

\* no two nodes of g.Nodes carry the same identity
UniqueIDs(g) ==
  \A i, j \in 1..Len(g.Nodes) : g.ID[g.Nodes[i]] = g.ID[g.Nodes[j]] => i = j

\* the descriptors of every edge carry the identities its ends have now
EndsAgree(g) ==
  \A o \in Objs : \A i \in 1..Len(g.Edges[o]) :
    /\ g.Edges[o][i].near.ID = g.ID[g.Edges[o][i].near.Node]
    /\ g.Edges[o][i].far.ID = g.ID[g.Edges[o][i].far.Node]

\* C18: after a successful SetEdge(n1, n2, w, t1, t2, bidirectional) on two
\* nodes of distinct identities (no edge of the graph carrying an identity
\* its end has lost), GetEdge(n1, n2) has weight w, near tag t1, far tag t2
\* and the ends n1 and n2, and if bidirectional GetEdge(n2, n1) has weight w,
\* near tag t2 and far tag t1
C18_SetEdgeOverwrites ==
  (/\ call.op = "SetEdge" /\ call.err = "ok"
   /\ graph.ID[call.n1] # graph.ID[call.n2]
   /\ EndsAgree(graph)) =>
    /\ EdgeIs(graph, call.n1, call.n2, call.w, call.t1, call.t2)
    /\ call.bidirectional =>
         EdgeIs(graph, call.n2, call.n1, call.w, call.t2, call.t1)

\* C19: SetNodeByID(id, coords, data) on an identity of the graph writes the
\* coordinates and the payload of that node and leaves g.Nodes and NumNodes
\* as they were; on an absent identity it appends one node, with them, and
\* adds one to NumNodes; a second call with the same arguments changes nothing
C19_SetNodeByIDUpsert ==
  [][Called("SetNodeByID") =>
       /\ call'.err = "ok"
       /\ Graph_HasNodeWithID(graph, call'.id) =>
            /\ graph'.Nodes = graph.Nodes
            /\ graph'.NumNodes = graph.NumNodes
       /\ ~Graph_HasNodeWithID(graph, call'.id) =>
            /\ Len(graph'.Nodes) = Len(graph.Nodes) + 1
            /\ SubSeq(graph'.Nodes, 1, Len(graph.Nodes)) = graph.Nodes
            /\ graph'.NumNodes = graph.NumNodes + 1
       /\ Graph_HasNodeWithID(graph', call'.id)
       /\ graph'.Coords[Graph_GetNodeByID(graph', call'.id).n] = call'.c
       /\ graph'.Extra[Graph_GetNodeByID(graph', call'.id).n] = call'.extra
       /\ Graph_SetNodeByID(graph', call'.id, call'.c, call'.extra) = graph']_vars

\* SetNodeByID has overwritten the payload of a node of a graph of two nodes
C19_Witness ==
  /\ call.op = "SetNodeByID" /\ call.err = "ok" /\ call.found
  /\ Len(graph.Nodes) = 2
  /\ graph.NumNodes = 2
  /\ \E i \in 1..2 : /\ graph.ID[graph.Nodes[i]] = call.id
                     /\ graph.Extra[graph.Nodes[i]] = call.extra

\* C20: after any calls of SetNode, SetNodeByID, RemoveNode and
\* RemoveNodeByID no two nodes of g.Nodes have the same identity, and NumNodes
\* is the length of g.Nodes
C20_IdentitiesUnique ==
  /\ UniqueIDs(graph)
  /\ graph.NumNodes = Len(graph.Nodes)

\* C21: in every state of the graph, each of the two descriptors of every
\* edge carries the identity its node has now
C21_DescriptorsAgree == EndsAgree(graph)

\* edge records held by the Node objects
RECURSIVE EdgeRecords(_, _)
EdgeRecords(g, o) ==
  IF o = 0 THEN 0 ELSE Len(g.Edges[o]) + EdgeRecords(g, o - 1)

\* C23: after any calls of SetEdge, RemoveEdge and RemoveNode on nodes of the
\* graph, NumEdges is the number of edge records the nodes hold
C23_NumEdgesExact ==
  (\A o \in Made : InNodes(graph, o)) =>
    graph.NumEdges = EdgeRecords(graph, graph.made)

\* the edges of o whose far node is not n
EdgesAway(g, o, n) == SelectSeq(g.Edges[o], LAMBDA e : e.far.Node # n)

\* C22: RemoveNode(n) on a node of the graph returns with n out of g.Nodes,
\* no node of the graph keeping an edge whose far node is n, no node of n's
\* identity found, NumNodes one less, and every other node, with its edges
\* to other nodes, as it was
C22_RemoveNodeClean ==
  [][(Called("RemoveNode") /\ call'.found) =>
       /\ call'.err = "ok"
       /\ ~InNodes(graph', call'.n1)
       /\ \A o \in Objs :
            InNodes(graph', o) => EdgesAway(graph', o, call'.n1) = graph'.Edges[o]
       /\ ~Graph_HasNodeWithID(graph', graph.ID[call'.n1])
       /\ graph'.NumNodes = graph.NumNodes - 1
       /\ graph'.Nodes = SelectSeq(graph.Nodes, LAMBDA o : o # call'.n1)
       /\ graph'.ID = graph.ID /\ graph'.Coords = graph.Coords
       /\ graph'.Extra = graph.Extra
       /\ \A o \in Objs \ {call'.n1} :
            EdgesAway(graph', o, call'.n1) = EdgesAway(graph, o, call'.n1)]_vars

\* no identity stands twice in t.Nodes, sentinels carry the negative
\* identities issued so far and data nodes carry non-negative ones
DistinctBySign(t) ==
  /\ \A i, j \in 1..Len(t.Nodes) : t.Nodes[i] = t.Nodes[j] => i = j
  /\ \A n \in InGraph(t) :
       IF t.Extra[n].Type = NilNodeTag
       THEN n < 0 /\ n > t.nilNodeCount
       ELSE n >= 0

\* C24: every identity issued for a sentinel is negative and below every
\* sentinel identity issued before; the identity NewNode issues for a data
\* node is non-negative and is the identity of no node of the graph when it
\* is issued; so no two nodes of the tree's graph share an identity and no
\* sentinel shares one with a data node
C24_IssuedIdentities ==
  [][/\ \A n \in InGraph(tree') \ InGraph(tree) :
          n < 0 => (n <= tree.nilNodeCount /\ n > tree'.nilNodeCount)
     /\ tree'.nilNodeCount <= tree.nilNodeCount
     /\ (pc[1] = "idle" /\ pc'[1] = "Insert:call") =>
          /\ arg'[1].n >= 0
          /\ arg'[1].n \notin InGraph(tree)
          /\ arg'[1].n \in InGraph(tree')
     /\ DistinctBySign(tree')]_vars

\* after a Delete, NewNode has issued an identity a deleted node had, in a
\* tree that has drawn eight sentinel identities or more
C24_Witness ==
  /\ pc[1] = "Insert:call"
  /\ hist.deleted
  /\ IsData(tree, arg[1].n)
  /\ tree.nilNodeCount <= 0 - 9
  /\ DistinctBySign(tree)

\* thread th retries in GetID with the lock, alone between Lock and Unlock,
\* every identity held
Spinning(th) ==
  /\ pc[th] = "NewNode:body"
  /\ Full(tree)
  /\ locked
  /\ Holders = {th}
  /\ readers.holding = 0

\* C25: a request for a data identity returns, under fair draws, when some
\* identity of the range is free; when every identity is held it retries
\* for ever with the tree lock, and no other call passes Lock (until a fatal
\* error ends the program)
C25_GetIDReturnsIffFree ==
  \A th \in Threads :
    /\ (pc[th] = "NewNode:body" /\ ~Full(tree)) ~> (pc[th] # "NewNode:body" \/ ~Alive)
    /\ [](pc[th] = "NewNode:body" /\ Full(tree) => [](Spinning(th) \/ ~Alive))

\* a NewNode retries with every identity held while the other thread waits
\* for the lock with the node it is to insert
C25_Witness ==
  \E th \in Threads :
    /\ Spinning(th)
    /\ \E other \in Threads : pc[other] = "Insert:lock"

\* the data identities of the graph from position i on, in the order the
\* graph took them
RECURSIVE DataSeq(_, _)
DataSeq(t, i) ==
  IF i > Len(t.Nodes) THEN << >>
  ELSE (IF t.Extra[t.Nodes[i]].Type = DataNodeTag THEN <<t.Nodes[i]>> ELSE << >>)
       \o DataSeq(t, i + 1)

\* identities ordered as 10, 5, 15, 3 are: the second below the first, the
\* third above it, the fourth below the second
OrderedAsScenario(s) ==
  /\ Len(s) = 4
  /\ s[2] < s[1] /\ s[1] < s[3] /\ s[4] < s[2]

\* the tree started with the first identity and took the three others by
\* Insert, in that order, every call without error
ScenarioDone ==
  /\ AtRest
  /\ ~hist.deleted
  /\ ~hist.failed
  /\ OrderedAsScenario(DataSeq(tree, 1))

C27_PutNodeErrors ==
  [][Called("putNode") =>
       \E c \in {call'} :
         /\ c.color \notin {Red, Black} => c.err = "ColorData"
         /\ (c.color \in {Red, Black} /\ c.parent = NoNode /\ c.tag = TagRoot
               /\ tree.Root # NoNode) => c.err = "RootInsert"
         /\ (c.color \in {Red, Black} /\ c.parent = NoNode /\ c.tag # TagRoot)
               => c.err = "NilNode"
         /\ (c.color \in {Red, Black} /\ c.parent # NoNode
               /\ c.tag \notin {TagLChild, TagRChild}) => c.err = "Tag"
         /\ (c.color \in {Red, Black} /\ c.parent # NoNode
               /\ c.tag \in {TagLChild, TagRChild}
               /\ c.kind \notin {DataNodeTag, NilNodeTag}) => c.err = "NodeTypeTag"
         /\ c.err # "ok" => tree' = tree
         /\ (c.color \in {Red, Black} /\ c.parent # NoNode
               /\ c.tag \in {TagLChild, TagRChild}
               /\ c.kind \in {DataNodeTag, NilNodeTag}) =>
              /\ c.err = "ok"
              /\ c.n \notin InGraph(tree)
              /\ c.n \in InGraph(tree')
              /\ tree'.Extra[c.n].Type = c.kind
              /\ tree'.Extra[c.n].Color = c.color
              /\ GetRelative(tree', c.parent, c.tag).n = c.n
              /\ GetParent(tree', c.n).n = c.parent]_vars

\* putNode has attached a red data node as the left child of a data node
\* that is not the root
C27_Witness ==
  /\ call.op = "putNode"
  /\ call.err = "ok"
  /\ call.kind = DataNodeTag
  /\ call.color = Red
  /\ call.parent # tree.Root
  /\ GetLChild(tree, call.parent).n = call.n

\* the identities of the data nodes below and at n, left to right
RECURSIVE InOrder(_, _, _)
InOrder(t, n, fuel) ==
  IF fuel = 0 \/ ~IsData(t, n) THEN << >>
  ELSE InOrder(t, LChild(t, n), fuel - 1) \o <<n>>
       \o InOrder(t, RChild(t, n), fuel - 1)

\* the side n hangs on under its parent
SideOf(t, n) ==
  IF GetRelative(t, Parent(t, n), TagLChild).n = n THEN TagLChild ELSE TagRChild

\* n is the child of p on the given side, each linked to the other
Linked(t, p, side, n) ==
  /\ GetRelative(t, p, side).n = n
  /\ Parent(t, n) = p

\* between t0 and t1 node n went down to the side `down` and its child r on
\* the other side `up` took its place: r hangs where n hung, n is r's child
\* on the side down, r's former child on that side is n's child on the side
\* up, the two outer subtrees stay, every other node keeps its edges, the
\* recorded root follows, and the order of the identities is kept
Rotated(t0, t1, n, r, down, up) ==
  \E p \in {Parent(t0, n)}, x \in {GetRelative(t0, r, down).n} :
    /\ Linked(t1, p, SideOf(t0, n), r)
    /\ Linked(t1, r, down, n)
    /\ Linked(t1, n, up, x)
    /\ Linked(t1, n, down, GetRelative(t0, n, down).n)
    /\ Linked(t1, r, up, GetRelative(t0, r, up).n)
    /\ \A m \in InGraph(t0) \ {p, n, r, x} : t1.Edges[m] = t0.Edges[m]
    /\ InGraph(t1) = InGraph(t0)
    /\ t1.Root = (IF t0.Root = n THEN r ELSE t0.Root)
    /\ InOrder(t1, Top(t1), Fuel(t1)) = InOrder(t0, Top(t0), Fuel(t0))

\* C28: rotateLeft(n), n with a parent and a non-sentinel right child r,
\* puts r where n hung under the parent, n as r's left child and r's former
\* left child as n's right child, keeps n's left and r's right subtree and
\* every other node, moves the recorded root from n to r, and keeps the
\* in-order sequence of identities; rotateRight does the mirror image
C28_RotationShape ==
  [][/\ (Called("rotateLeft") /\ IsData(tree, call'.pivot)) =>
          /\ call'.err = "ok"
          /\ Rotated(tree, tree', call'.n, call'.pivot, TagLChild, TagRChild)
     /\ (Called("rotateRight") /\ IsData(tree, call'.pivot)) =>
          /\ call'.err = "ok"
          /\ Rotated(tree, tree', call'.n, call'.pivot, TagRChild, TagLChild)]_vars

\* rotateLeft has turned a node under a data parent whose right child had a
\* data node as its left child
C28_Witness ==
  /\ call.op = "rotateLeft"
  /\ call.err = "ok"
  /\ IsData(call.before, Parent(call.before, call.n))
  /\ IsData(call.before, LChild(call.before, call.pivot))
  /\ LChild(tree, call.pivot) = call.n

\* rotateLeft(n), n with a data node r as its right child, was followed by
\* rotateRight(r)
RotatedBack ==
  /\ call.op = "rotateRight"
  /\ call.count = 2
  /\ call.first.op = "rotateLeft"
  /\ call.n = call.first.pivot
  /\ IsData(call.first.before, call.first.pivot)

\* the heights a count is recorded at in t or in u
CountedHeights(t, u) == (DOMAIN t.nodeHeights) \cup (DOMAIN u.nodeHeights)

\* C29: after rotateLeft(n) and then rotateRight(r), r the data node that
\* was n's right child, neither call returned an error, every node has the
\* parent, left child and right child it had, the recorded root is the same,
\* every node has its recorded height (and colour and kind), and the
\* recorded height of the tree and the count of every height are the same
C29_RotateLeftThenRight ==
  RotatedBack =>
    \E t0 \in {call.first.before} :
      /\ call.first.err = "ok"
      /\ call.err = "ok"
      /\ InGraph(tree) = InGraph(t0)
      /\ \A m \in InGraph(tree) :
           /\ Parent(tree, m) = Parent(t0, m)
           /\ LChild(tree, m) = LChild(t0, m)
           /\ RChild(tree, m) = RChild(t0, m)
      /\ tree.Root = t0.Root
      /\ tree.Extra = t0.Extra
      /\ tree.Height = t0.Height
      /\ \A h \in CountedHeights(tree, t0) :
           MapGet(tree.nodeHeights, h) = MapGet(t0.nodeHeights, h)

\* both rotations were made below the root; the first one had raised the
\* right child by one recorded height and the second one lowered it again
C29_Witness ==
  /\ RotatedBack
  /\ call.first.n # call.first.before.Root
  /\ call.before.Extra[call.n].Height < tree.Extra[call.n].Height

\* C30: rotateLeft(n), n's right child a sentinel, and rotateRight(n), n's
\* left child a sentinel, return NilNodeError and leave the graph with its
\* nodes, edges, colours and heights, the recorded root, the recorded height
\* and the counts of the heights as they were
C30_RotateOnSentinel ==
  [][((Called("rotateLeft") \/ Called("rotateRight"))
        /\ IsSentinel(tree, call'.pivot)) =>
       /\ call'.err = "NilNode"
       /\ tree' = tree]_vars

\* rotateLeft was refused on a node that has a data node as its left child,
\* after a rotation that went through
C30_Witness ==
  /\ call.op = "rotateLeft"
  /\ call.err = "NilNode"
  /\ call.count = 2
  /\ call.first.err = "ok"
  /\ IsSentinel(tree, RChild(tree, call.n))
  /\ IsData(tree, LChild(tree, call.n))

\* in tree d node n is red, its parent is red and its uncle is a red data
\* node: the case insertRepairTree hands to insertCase3
InCase3(d, n) ==
  /\ d.err = "ok"
  /\ IsData(d, Parent(d, n))
  /\ d.Extra[n].Color = Red
  /\ d.Extra[Parent(d, n)].Color = Red
  /\ IsData(d, GetUncle(d, n).n)
  /\ d.Extra[GetUncle(d, n).n].Color = Red

\* the single caller's Insert returns in this step
InsertReturns == pc[1] = "Insert:call" /\ pc'[1] = "idle"

InCase4(d, n, inner, outer) ==
  /\ d.err = "ok"
  /\ IsData(d, Parent(d, n))
  /\ d.Extra[n].Color = Red
  /\ d.Extra[Parent(d, n)].Color = Red
  /\ ~(GetUncle(d, n).err = "ok" /\ d.Extra[GetUncle(d, n).n].Color = Red)
  /\ IsData(d, GetGrandParent(d, n).n)
  /\ SideOf(d, n) = inner
  /\ SideOf(d, Parent(d, n)) = outer

\* insertCase4 on n against the rotation of p followed by insertCase4Step2
\* on p, and the shape both leave: n black in the grandparent's former
\* slot, the grandparent red and a child of n
Case4AsTwoSteps(d, n, rotated, t1) ==
  \E p \in {Parent(d, n)}, gp \in {GetGrandParent(d, n).n} :
    /\ insertCase4(d, n) = insertCase4Step2(rotated, p)
    /\ t1.Extra[n].Color = Black
    /\ t1.Extra[gp].Color = Red
    /\ Parent(t1, gp) = n
    /\ Parent(t1, p) = n
    /\ IF IsData(d, Parent(d, gp))
       THEN Parent(t1, n) = Parent(d, gp) /\ SideOf(t1, n) = SideOf(d, gp)
       ELSE Top(t1) = n /\ t1.Root = n

\* C32: when Insert's repair starts in case 4 at a right child of a left
\* child (or the mirrored shape), insertCase4 gives exactly the tree given
\* by rotateLeft (rotateRight) of the parent followed by insertCase4Step2 on
\* the parent, and after Insert the node in the grandparent's former slot is
\* black and the grandparent is its red child
C32_Case4IsRotateThenStep2 ==
  [][InsertReturns =>
       \E d \in {InsertDescend(tree, tree.Root, arg[1].n)} :
         /\ InCase4(d, arg[1].n, TagRChild, TagLChild) =>
              Case4AsTwoSteps(d, arg[1].n, rotateLeft(d, Parent(d, arg[1].n)), tree')
         /\ InCase4(d, arg[1].n, TagLChild, TagRChild) =>
              Case4AsTwoSteps(d, arg[1].n, rotateRight(d, Parent(d, arg[1].n)), tree')]_vars

\* an Insert without error has left the node it was given black, with two
\* red data children, the lower of which has a sentinel on its right where
\* the inserted node hung before the rotations
C32_Witness ==
  /\ AtRest /\ ~hist.deleted /\ ~hist.failed
  /\ \E n \in {DataSeq(tree, 1)[Len(DataSeq(tree, 1))]} :
       /\ Len(DataSeq(tree, 1)) >= 3
       /\ tree.Extra[n].Color = Black
       /\ IsData(tree, LChild(tree, n)) /\ IsData(tree, RChild(tree, n))
       /\ tree.Extra[LChild(tree, n)].Color = Red
       /\ tree.Extra[RChild(tree, n)].Color = Red
       /\ IsSentinel(tree, RChild(tree, LChild(tree, n)))
       /\ IsSentinel(tree, LChild(tree, RChild(tree, n)))

\* the single caller's Delete returns in this step; arg'[1].n is the node
\* it was called on
DeleteReturns == pc[1] = "idle" /\ pc'[1] = "idle"

\* the last data node on the chain of children on the given side that
\* starts at m; NoNode when m is not a data node
RECURSIVE EndOfChain(_, _, _, _)
EndOfChain(t, m, side, fuel) ==
  IF fuel = 0 \/ ~IsData(t, m) THEN NoNode
  ELSE IF IsData(t, GetRelative(t, m, side).n)
  THEN EndOfChain(t, GetRelative(t, m, side).n, side, fuel - 1)
  ELSE m

\* the replacement the alternation prescribes for Delete(n): with the
\* preference on the predecessor the maximum of the left subtree, otherwise
\* the minimum of the right subtree, and the other of the two when the
\* preferred one does not exist
Preferred(t, n) ==
  LET successor == EndOfChain(t, RChild(t, n), TagLChild, Fuel(t))
      predecessor == EndOfChain(t, LChild(t, n), TagRChild, Fuel(t))
  IN IF t.removePredecessor
     THEN IF predecessor # NoNode THEN predecessor ELSE successor
     ELSE IF successor # NoNode THEN successor ELSE predecessor

HeightIsDepth(t, top) ==
  /\ top \in InGraph(t)
  /\ t.Extra[top].Height = 0
  /\ \A n \in Subtree(t, top, Fuel(t)) :
       \A c \in {LChild(t, n), RChild(t, n)} :
         c \in InGraph(t) /\ t.Extra[c].Height = t.Extra[n].Height + 1

\* C34: after construction and whenever no call is in progress (after every
\* Insert and Delete, and after every rotation that returned no error) the
\* top of the tree is recorded at height 0 and every child below it, data
\* node or sentinel, one higher than its parent
C34_HeightIsDepth ==
  /\ AtRest
  /\ call.op # "putNode"
  /\ call.op \in {"rotateLeft", "rotateRight"} => call.err = "ok"
  => HeightIsDepth(tree, Top(tree))

\* a Delete has returned without error and left a tree of three levels of
\* data nodes: a data node at height 2 with its sentinels at height 3
C34_Witness ==
  /\ AtRest /\ hist.deleted /\ ~hist.failed
  /\ ~IsData(tree, LastDeleted)
  /\ \E n \in TreeNodes(tree) :
       /\ tree.Extra[n].Height = 2
       /\ IsSentinel(tree, LChild(tree, n))
       /\ tree.Extra[LChild(tree, n)].Height = 3
       /\ IsData(tree, GetSibling(tree, Parent(tree, n)).n)

InCall(th) ==
  pc[th] \in {"Insert:descend", "Insert:repair", "Insert:unlock",
              "Delete:body", "Delete:unlock"}

\* thread th is parked in the Lock() of Insert or Delete
Waiting(th) == pc[th] \in {"Insert:lock", "Delete:lock"}

\* C36: under fair scheduling, and unless a fatal error ends the program,
\* every Insert and every Delete that holds the lock returns, whatever
\* error it returns, with the lock released, and a thread waiting for the
\* lock gets it unless a NewNode holds it forever for want of a free
\* identity
C36_CallsTerminate ==
  \A th \in Threads :
    /\ InCall(th) ~> ((~InCall(th) /\ ~locked) \/ ~Alive)
    /\ Waiting(th) ~> (InCall(th) \/ ~Alive \/ \E other \in Threads : Spinning(other))

\* one thread is in the repair of its Insert, the lock held, while the
\* other waits for the lock in Delete
C36_Witness ==
  /\ Alive /\ locked
  /\ \E th \in Threads, other \in Threads :
       /\ pc[th] = "Insert:repair"
       /\ pc[other] = "Delete:lock"

\* threads between t.Lock() and t.Unlock(), and those of them inside a
\* locking method of the graph
TreeLockHolders ==
  {th \in Threads :
     \E op \in LockingCalls : pc[th] \in {CallPos(op).body, CallPos(op).graph}}

GraphLockHolders ==
  {th \in Threads : \E op \in LockingCalls : pc[th] = CallPos(op).graph}

\* a goroutine is inside a call or a sendGraph, parked or holding a lock
SomeoneBusy ==
  \/ \E th \in Threads : pc[th] # "idle"
  \/ readers.waiting + readers.holding > 0

\* C37: each lock is held by exactly the goroutines that took it and gave
\* it not back, one at most, so that none asks for a lock it holds; the
\* graph lock is held only by the one thread that holds the tree lock,
\* never by or beside a sendGraph; and at no time are all busy goroutines
\* blocked: one of them can take or release a lock
C37_LockOrder ==
  /\ Cardinality(TreeLockHolders) + readers.holding <= 1
  /\ locked <=> Cardinality(TreeLockHolders) + readers.holding = 1
  /\ tree.GraphLock <=> GraphLockHolders # {}
  /\ tree.GraphLock => locked /\ readers.holding = 0
  /\ SomeoneBusy => ENABLED LockStep

\* a thread is inside a locking method of the graph, with both locks, while
\* the other thread is parked in t.Lock() and a sendGraph waits as well
C37_Witness ==
  /\ locked /\ tree.GraphLock
  /\ readers.waiting > 0
  /\ \E th \in Threads, other \in Threads :
       /\ pc[th] = "Delete:graph"
       /\ pc[other] = "Insert:lock"

\* C38: when every call of the racing handlers has returned, none with an
\* error, the tree is in BST order, no red node has a red child, the black
\* heights are equal and the recorded root is the top of the tree
C38_RaceKeepsTree ==
  AtRest /\ ~hist.failed =>
    /\ Top(tree) = tree.Root
    /\ \A n \in DataNodes(tree) : n \in TreeNodes(tree)
    /\ BSTOrder(tree)
    /\ NoRedRed(tree)
    /\ EqualBlackHeight(tree)

\* n hangs in the tree: it is the top or has a parent, and it has a left
\* and a right child
Attached(t, n) ==
  /\ n = Top(t) \/ Parent(t, n) \in InGraph(t)
  /\ LChild(t, n) \in InGraph(t)
  /\ RChild(t, n) \in InGraph(t)

\* C39: while a reader holds the tree lock (sendGraph before it writes the
\* graph), every data node of the graph is attached to the tree, even when
\* no call has failed and nothing was deleted before
C39_ReaderSeesAttached ==
  readers.holding > 0 /\ ~hist.failed /\ ~hist.deleted =>
    \A n \in DataNodes(tree) : Attached(tree, n)

\* n has at most one edge per relation tag and at most one edge to any far
\* node
OneEdgePerRelation(t, n) ==
  /\ \A tag \in {TagParent, TagLChild, TagRChild} : RelationCount(t, n, tag) <= 1
  /\ \A i, j \in 1..Len(EdgesOf(t, n)) :
       i # j => EdgesOf(t, n)[i].far # EdgesOf(t, n)[j].far

\* C40: while no tree operation is in progress, every node of the graph has
\* at most one parent edge, one lchild edge and one rchild edge, and at most
\* one edge to any far node
C40_OneEdgePerRelation ==
  AtRest => \A n \in InGraph(tree) : OneEdgePerRelation(tree, n)

\* at rest after a successful deletion, an inner data node other than the one deleted has
\* all three relations
C40_Witness ==
  /\ AtRest
  /\ hist.deleted
  /\ result[1] = "ok"
  /\ \E n \in DataNodes(tree) :
       /\ n # LastDeleted
       /\ RelationCount(tree, n, TagParent) = 1
       /\ RelationCount(tree, n, TagLChild) = 1
       /\ RelationCount(tree, n, TagRChild) = 1
       /\ ~IsSentinel(tree, Parent(tree, n))
       /\ ~IsSentinel(tree, RChild(tree, n))
====
